---- MODULE Spec2Model ----
(***************************************************************************)
(* Log reconciliation engine of scripts/process_meetings.py.               *)
(*                                                                         *)
(* A text value (a Python str) is a sequence of one-character strings, so  *)
(* that normalize_text, startswith, split, int() and the :04d format are   *)
(* computed character by character.  A meeting date, which strftime        *)
(* renders without letters or blanks, is a single token.  A row (a Python  *)
(* dict) is a function from the column names it holds to text values.      *)
(***************************************************************************)
EXTENDS Integers, Sequences, FiniteSets, TLC

VARIABLES kind, meetingName, rows, headers, calls, op, pre, args, out

(* A run of process: the person files on disk, the position of the run,    *)
(* the classifier responses of the meetings still to read, the items       *)
(* collected, the last step taken and the files as the run found them.     *)
VARIABLES files, files0, pc, dry_run, meetings, development_items, step, runs

(* The lines of a log file on disk. *)
VARIABLES lines

logVars == <<kind, meetingName, rows, headers, calls, op, pre, args, out>>

runVars == <<files, files0, pc, dry_run, meetings, development_items, step, runs>>

vars == <<logVars, runVars, lines>>

---------------------------------------------------------------------------
(* Bounds of the model.                                                    *)

(* The number of merge and migration calls made on a log in one behaviour. *)
MaxCalls == 2

(* The number of runs of process made on a log directory in one behaviour. *)
MaxRuns == 2

---------------------------------------------------------------------------
(* Text primitives.                                                        *)

Whitespace == {" ", "\t", "\n", "\r"}

Digits == {"0", "1", "2", "3", "4", "5", "6", "7", "8", "9"}

DigitVal(c) ==
    CASE c = "0" -> 0 [] c = "1" -> 1 [] c = "2" -> 2 [] c = "3" -> 3
      [] c = "4" -> 4 [] c = "5" -> 5 [] c = "6" -> 6 [] c = "7" -> 7
      [] c = "8" -> 8 [] c = "9" -> 9

DigitChar(d) ==
    CASE d = 0 -> "0" [] d = 1 -> "1" [] d = 2 -> "2" [] d = 3 -> "3"
      [] d = 4 -> "4" [] d = 5 -> "5" [] d = 6 -> "6" [] d = 7 -> "7"
      [] d = 8 -> "8" [] d = 9 -> "9"

(* str.lower() on the letters the model uses. *)
Lower(c) ==
    CASE c = "A" -> "a" [] c = "B" -> "b" [] c = "C" -> "c" [] c = "D" -> "d"
      [] c = "E" -> "e" [] c = "F" -> "f" [] c = "G" -> "g" [] c = "H" -> "h"
      [] c = "I" -> "i" [] c = "J" -> "j" [] c = "K" -> "k" [] c = "L" -> "l"
      [] c = "M" -> "m" [] c = "N" -> "n" [] c = "O" -> "o" [] c = "P" -> "p"
      [] c = "Q" -> "q" [] c = "R" -> "r" [] c = "S" -> "s" [] c = "T" -> "t"
      [] c = "U" -> "u" [] c = "V" -> "v" [] c = "W" -> "w" [] c = "X" -> "x"
      [] c = "Y" -> "y" [] c = "Z" -> "z"
      [] OTHER -> c

(* str.upper() of one letter. *)
Upper(c) ==
    CASE c = "a" -> "A" [] c = "b" -> "B" [] c = "c" -> "C" [] c = "d" -> "D"
      [] c = "e" -> "E" [] c = "f" -> "F" [] c = "g" -> "G" [] c = "h" -> "H"
      [] c = "i" -> "I" [] c = "j" -> "J" [] c = "k" -> "K" [] c = "l" -> "L"
      [] c = "m" -> "M" [] c = "n" -> "N" [] c = "o" -> "O" [] c = "p" -> "P"
      [] c = "q" -> "Q" [] c = "r" -> "R" [] c = "s" -> "S" [] c = "t" -> "T"
      [] c = "u" -> "U" [] c = "v" -> "V" [] c = "w" -> "W" [] c = "x" -> "X"
      [] c = "y" -> "Y" [] c = "z" -> "Z"
      [] OTHER -> c

(* A cased character: a letter. *)
IsLetter(c) == Lower(c) # c \/ Upper(c) # c

Max(a, b) == IF a >= b THEN a ELSE b

RECURSIVE CollapseWs(_)
(* re.sub(r"\s+", " ", value): every maximal run of whitespace becomes one blank. *)
CollapseWs(s) ==
    IF s = <<>> THEN <<>>
    ELSE IF Head(s) \in Whitespace
         THEN IF Len(s) > 1 /\ s[2] \in Whitespace
              THEN CollapseWs(Tail(s))
              ELSE <<" ">> \o CollapseWs(Tail(s))
         ELSE <<Head(s)>> \o CollapseWs(Tail(s))

RECURSIVE LStrip(_)
LStrip(s) ==
    IF s # <<>> /\ Head(s) \in Whitespace THEN LStrip(Tail(s)) ELSE s

RECURSIVE RStrip(_)
RStrip(s) ==
    IF s # <<>> /\ s[Len(s)] \in Whitespace
    THEN RStrip(SubSeq(s, 1, Len(s) - 1))
    ELSE s

(* str.strip() *)
Strip(s) == RStrip(LStrip(s))

LowerStr(s) == [i \in 1..Len(s) |-> Lower(s[i])]

(* normalize_text without the lower(). *)
normalize_text_keeps_case(value) == Strip(CollapseWs(value))

normalize_text(value) == LowerStr(Strip(CollapseWs(value)))

(* str.startswith *)
StartsWith(s, p) == Len(s) >= Len(p) /\ SubSeq(s, 1, Len(p)) = p

(* ident.split("-", 1)[1] for an ident that holds a "-": the text after the first one. *)
AfterFirstDash(s) ==
    LET i == CHOOSE j \in 1..Len(s) : s[j] = "-" /\ \A k \in 1..(j - 1) : s[k] # "-"
    IN  SubSeq(s, i + 1, Len(s))

RECURSIVE DigitsValue(_)
DigitsValue(s) ==
    IF s = <<>> THEN 0
    ELSE DigitsValue(SubSeq(s, 1, Len(s) - 1)) * 10 + DigitVal(s[Len(s)])

(* int(text) on the model's alphabet: a non-empty run of decimal digits    *)
(* parses, anything else raises ValueError (ok = FALSE).                   *)
ParseInt(s) ==
    IF s # <<>> /\ \A i \in 1..Len(s) : s[i] \in Digits
    THEN [ok |-> TRUE, val |-> DigitsValue(s)]
    ELSE [ok |-> FALSE, val |-> 0]

RECURSIVE IntToStr(_)
(* str(n) for n >= 0 *)
IntToStr(n) ==
    IF n < 10 THEN <<DigitChar(n)>>
    ELSE IntToStr(n \div 10) \o <<DigitChar(n % 10)>>

PadWidth == 4

RECURSIVE ZeroPad(_, _)
ZeroPad(s, w) == IF Len(s) >= w THEN s ELSE ZeroPad(<<"0">> \o s, w)

(* f"{number:04d}" *)
Format04d(n) == ZeroPad(IntToStr(n), PadWidth)

---------------------------------------------------------------------------
(* Rows.                                                                   *)

(* row.get(field, "") *)
Get(row, field) == IF field \in DOMAIN row THEN row[field] ELSE <<>>

(* row[field] = value *)
Put(row, field, value) ==
    [f \in (DOMAIN row) \cup {field} |-> IF f = field THEN value ELSE row[f]]

IDsOf(rs) == [i \in 1..Len(rs) |-> Get(rs[i], "ID")]

---------------------------------------------------------------------------
(* next_id                                                                 *)

RECURSIVE HighestId(_, _, _)
(* The loop of next_id: highest after scanning rs, starting from h. *)
HighestId(rs, prefix, h) ==
    IF rs = <<>> THEN h
    ELSE LET ident == Get(Head(rs), "ID")
             p == IF StartsWith(ident, prefix \o <<"-">>)
                  THEN ParseInt(AfterFirstDash(ident))
                  ELSE [ok |-> FALSE, val |-> 0]
         IN  HighestId(Tail(rs), prefix, IF p.ok THEN Max(h, p.val) ELSE h)

(* next_id numbering by the row count instead of the highest number in use. *)
next_id_by_count(rs, prefix, pad) ==
    LET number == Len(rs) + 1
    IN  prefix \o <<"-">> \o (IF pad THEN Format04d(number) ELSE IntToStr(number))

(* next_id that returns the highest number in use, not the one after it. *)
next_id_no_increment(rs, prefix, pad) ==
    LET number == HighestId(rs, prefix, 0)
    IN  prefix \o <<"-">> \o (IF pad THEN Format04d(number) ELSE IntToStr(number))

(* next_id that never pads. *)
next_id_unpadded(rs, prefix, pad) ==
    prefix \o <<"-">> \o IntToStr(HighestId(rs, prefix, 0) + 1)

next_id(rs, prefix, pad) ==
    LET number == HighestId(rs, prefix, 0) + 1
    IN  prefix \o <<"-">> \o (IF pad THEN Format04d(number) ELSE IntToStr(number))

---------------------------------------------------------------------------
(* Candidate items (the Item and Meeting dataclasses).  An absent or empty *)
(* due date is <<>>.                                                       *)

ItemDate(item) == <<item.date>>

(* ", ".join(p for p in parts if p) *)
JoinNonEmpty(a, b) ==
    IF a = <<>> THEN b
    ELSE IF b = <<>> THEN a
    ELSE a \o <<",", " ">> \o b

---------------------------------------------------------------------------
(* merge_items                                                             *)

(* existing_index after the loop over rows: a later row with the same key  *)
(* replaces an earlier one.  A row is named by its position in rows: the   *)
(* dict holds references to the row objects of the list.                   *)
RowKey(row, key_fields) ==
    [i \in 1..Len(key_fields) |-> normalize_text(Get(row, key_fields[i]))]

BuildIndex(rs, key_fields) ==
    LET keys == {RowKey(rs[i], key_fields) : i \in 1..Len(rs)}
    IN  [k \in keys |->
            CHOOSE i \in 1..Len(rs) :
                /\ RowKey(rs[i], key_fields) = k
                /\ \A j \in (i + 1)..Len(rs) : RowKey(rs[j], key_fields) # k]

RECURSIVE RowsAt(_, _, _)
(* list(existing_index.values()), in row order *)
RowsAt(rs, positions, i) ==
    IF i > Len(rs) THEN <<>>
    ELSE (IF i \in positions THEN <<rs[i]>> ELSE <<>>) \o RowsAt(rs, positions, i + 1)

IndexValues(rs, index) == RowsAt(rs, {index[k] : k \in DOMAIN index}, 1)

(* The dict literal of lines 722-730 and the task branch of 731-734. *)
Candidate(item, hdrs, owner_field, desc_field, meeting_field) ==
    LET c0 == ("ID" :> <<>>)
        c1 == Put(c0, "Date", ItemDate(item))
        c2 == Put(c1, meeting_field, item.title)
        c3 == Put(c2, owner_field, item.owner)
        c4 == Put(c3, desc_field, item.summary)
        c5 == Put(c4, "Status", <<"o", "p", "e", "n">>)
        c6 == Put(c5, "Incidents", <<"1">>)
        c7 == IF item.kind = "task"
              THEN Put(c6, meeting_field, item.title \o <<" ", "(">> \o item.tag \o <<")">>)
              ELSE c6
        hasDue == \E i \in 1..Len(hdrs) : hdrs[i] = "Due"
    IN  IF item.kind = "task" /\ item.due # <<>> /\ hasDue
        THEN Put(c7, "Due", item.due)
        ELSE c7

(* int(row.get("Incidents", "0") or "0") *)
IncidentsOf(row) ==
    LET raw == IF "Incidents" \in DOMAIN row THEN row["Incidents"] ELSE <<"0">>
    IN  ParseInt(IF raw = <<>> THEN <<"0">> ELSE raw)

(* The update of a matched row that copies the candidate's Incidents, as a *)
(* row.update(candidate) would.                                            *)
UpdateMatched_copies_incidents(st, i, candidate) ==
    [st EXCEPT !.rows[i] = Put(Put(Put(@, "Incidents", candidate["Incidents"]),
                                   "Date", candidate["Date"]),
                               "Meeting", Get(candidate, "Meeting")),
               !.done = @ + 1]

(* The update of a matched row that puts the candidate in its place. *)
UpdateMatched_replaces_row(st, i, candidate) ==
    [st EXCEPT !.rows[i] = candidate, !.done = @ + 1]

(* Lines 736-741: the update of a matched row.  It writes Incidents, then  *)
(* Date, then reads candidate["Meeting"], which raises KeyError when the   *)
(* candidate was built under another meeting_field.                        *)
UpdateMatched(st, i, candidate) ==
    LET row == st.rows[i]
        p == IncidentsOf(row)
        r1 == Put(row, "Incidents", IntToStr(p.val + 1))
        r2 == Put(r1, "Date", candidate["Date"])
    IN  IF ~p.ok
        THEN [st EXCEPT !.err = "ValueError", !.done = @ + 1]
        ELSE IF "Meeting" \notin DOMAIN candidate
        THEN [st EXCEPT !.rows[i] = r2, !.err = "KeyError", !.done = @ + 1]
        ELSE [st EXCEPT !.rows[i] = Put(r2, "Meeting", candidate["Meeting"]),
                        !.done = @ + 1]

(* An insertion that leaves the index as it was built before the loop. *)
InsertNew_stale_index(st, key, candidate, prefix) ==
    LET id == next_id(st.rows \o IndexValues(st.rows, st.index), prefix, TRUE)
    IN  [st EXCEPT !.rows = Append(@, Put(candidate, "ID", id)),
                   !.done = @ + 1]

(* Lines 743-745: a new row, and the index updated at once. *)
InsertNew(st, key, candidate, prefix) ==
    LET id == next_id(st.rows \o IndexValues(st.rows, st.index), prefix, TRUE)
        new == Put(candidate, "ID", id)
    IN  [st EXCEPT !.rows = Append(@, new),
                   !.index = (key :> (Len(st.rows) + 1)) @@ @,
                   !.done = @ + 1]

(* A turn of the loop that looks the candidate up under its fields as      *)
(* written, not normalized.                                                *)
MergeOne_raw_key(st, item, prefix, hdrs, key_fields, owner_field, desc_field, meeting_field) ==
    LET candidate == Candidate(item, hdrs, owner_field, desc_field, meeting_field)
        key == [i \in 1..Len(key_fields) |-> Get(candidate, key_fields[i])]
    IN  IF key \in DOMAIN st.index
        THEN UpdateMatched(st, st.index[key], candidate)
        ELSE InsertNew(st, key, candidate, prefix)

(* One turn of the loop over items (lines 721-745). *)
MergeOne(st, item, prefix, hdrs, key_fields, owner_field, desc_field, meeting_field) ==
    LET candidate == Candidate(item, hdrs, owner_field, desc_field, meeting_field)
        key == RowKey(candidate, key_fields)
    IN  IF key \in DOMAIN st.index
        THEN UpdateMatched(st, st.index[key], candidate)
        ELSE InsertNew(st, key, candidate, prefix)

RECURSIVE MergeLoop(_, _, _, _, _, _, _, _)
MergeLoop(st, items, prefix, hdrs, key_fields, owner_field, desc_field, meeting_field) ==
    IF items = <<>> \/ st.err # "none" THEN st
    ELSE MergeLoop(
            MergeOne(st, Head(items), prefix, hdrs, key_fields,
                     owner_field, desc_field, meeting_field),
            Tail(items), prefix, hdrs, key_fields, owner_field, desc_field, meeting_field)

(* The result is the row list as the call leaves it (mutated in place up   *)
(* to an exception), the exception raised if any, and the number of items  *)
(* the loop took.                                                          *)
merge_items(rs, items, prefix, hdrs, key_fields, owner_field, desc_field, meeting_field) ==
    IF hdrs = <<>>
    THEN [rows |-> rs, index |-> <<>>, err |-> "none", done |-> 0]
    ELSE MergeLoop([rows |-> rs, index |-> BuildIndex(rs, key_fields),
                    err |-> "none", done |-> 0],
                   items, prefix, hdrs, key_fields, owner_field, desc_field, meeting_field)

---------------------------------------------------------------------------
(* normalize_development_table                                             *)

pad_id(ident, prefix) ==
    IF StartsWith(ident, prefix \o <<"-">>)
    THEN LET p == ParseInt(AfterFirstDash(ident))
         IN  IF p.ok THEN prefix \o <<"-">> \o Format04d(p.val) ELSE ident
    ELSE ident

(* A migration of a row that folds the meeting and the date into the       *)
(* description and leaves their columns in the row.                        *)
NormalizeRow_keeps_columns(row, desc_field, meeting_field, date_field, prefix) ==
    LET extra == JoinNonEmpty(Get(row, meeting_field), Get(row, date_field))
        summary == IF extra # <<>>
                   THEN Get(row, desc_field) \o <<" ", "(">> \o extra \o <<")">>
                   ELSE Get(row, desc_field)
    IN  Put(Put(Put(row, "ID", pad_id(Get(row, "ID"), prefix)),
                "Person", Get(row, "Person")),
            desc_field, summary)

(* Lines 577-590: one legacy row to one row of the simplified schema. *)
NormalizeRow(row, desc_field, meeting_field, date_field, prefix) ==
    LET extra == JoinNonEmpty(Get(row, meeting_field), Get(row, date_field))
        summary == IF extra # <<>>
                   THEN Get(row, desc_field) \o <<" ", "(">> \o extra \o <<")">>
                   ELSE Get(row, desc_field)
    IN  Put(Put("ID" :> pad_id(Get(row, "ID"), prefix),
                "Person", Get(row, "Person")),
            desc_field, summary)

RECURSIVE Backfill(_, _, _)
(* Lines 593-595: next_id scans the list being filled. *)
Backfill(normalized, i, prefix) ==
    IF i > Len(normalized) THEN normalized
    ELSE IF Get(normalized[i], "ID") = <<>>
         THEN Backfill([normalized EXCEPT ![i] = Put(@, "ID", next_id(normalized, prefix, TRUE))],
                       i + 1, prefix)
         ELSE Backfill(normalized, i + 1, prefix)

normalize_development_table(hdrs, rs, desc_field, meeting_field, date_field, prefix) ==
    [headers |-> <<"ID", "Person", desc_field>>,
     rows |-> Backfill([i \in 1..Len(rs) |->
                            NormalizeRow(rs[i], desc_field, meeting_field, date_field, prefix)],
                       1, prefix)]

---------------------------------------------------------------------------
(* merge_development_items                                                 *)

(* A key of the description alone. *)
DevRowKey_description_only(row, desc_field) ==
    <<normalize_text(Get(row, desc_field)), <<>>>>

DevRowKey(row, desc_field) ==
    <<normalize_text(Get(row, desc_field)), normalize_text(Get(row, "Person"))>>

BuildDevIndex(rs, desc_field) ==
    LET keys == {DevRowKey(rs[i], desc_field) : i \in 1..Len(rs)}
    IN  [k \in keys |->
            CHOOSE i \in 1..Len(rs) :
                /\ DevRowKey(rs[i], desc_field) = k
                /\ \A j \in (i + 1)..Len(rs) : DevRowKey(rs[j], desc_field) # k]

(* Lines 618-622: the summary with the meeting title and date appended. *)
DevSummary(item) ==
    LET suffix == JoinNonEmpty(item.title, ItemDate(item))
    IN  IF suffix # <<>> THEN item.summary \o <<" ", "(">> \o suffix \o <<")">>
        ELSE item.summary

(* One turn of the loop over items (lines 617-635). *)
DevMergeOne(st, item, prefix, desc_field) ==
    LET summary == DevSummary(item)
        key == <<normalize_text(summary), normalize_text(item.owner)>>
    IN  IF key \in DOMAIN st.index
        THEN [st EXCEPT !.rows[st.index[key]] =
                            Put(Put(@, "Person", item.owner), desc_field, summary),
                        !.done = @ + 1]
        ELSE [st EXCEPT !.rows = Append(@,
                            Put(Put("ID" :> next_id(st.rows, prefix, TRUE),
                                    "Person", item.owner),
                                desc_field, summary)),
                        !.index = (key :> (Len(st.rows) + 1)) @@ @,
                        !.done = @ + 1]

RECURSIVE DevMergeLoop(_, _, _, _)
DevMergeLoop(st, items, prefix, desc_field) ==
    IF items = <<>> THEN st
    ELSE DevMergeLoop(DevMergeOne(st, Head(items), prefix, desc_field),
                      Tail(items), prefix, desc_field)

merge_development_items(rs, items, prefix, desc_field) ==
    DevMergeLoop([rows |-> rs, index |-> BuildDevIndex(rs, desc_field),
                  err |-> "none", done |-> 0],
                 items, prefix, desc_field)

---------------------------------------------------------------------------
(* load_log_table on a path that does not exist (lines 493-494).           *)

load_log_table_missing == [headers |-> <<>>, rows |-> <<>>]

---------------------------------------------------------------------------
(* The binding of a record kind to its prefix, header list and field       *)
(* names, and the default header list of a log that does not exist yet.    *)

Kinds == {"risk", "task", "grow"}

MeetingFieldNames == {"Meeting", "Session"}

Prefix(k) ==
    CASE k = "risk" -> <<"R">> [] k = "task" -> <<"T">> [] k = "grow" -> <<"G">>

DefaultHeaders(k, mf) ==
    CASE k = "risk" -> <<"ID", "Date", mf, "Owner", "Description", "Status", "Incidents">>
      [] k = "task" -> <<"ID", "Date", mf, "Owner", "Description", "Due", "Status", "Incidents">>
      [] k = "grow" -> <<"ID", "Person", "Area">>

LegacyDevHeaders == <<"ID", "Person", "Area", "Meeting", "Date">>

KeyFields(k) ==
    CASE k = "risk" -> <<"Description">>
      [] k = "task" -> <<"Owner", "Description">>
      [] k = "grow" -> <<"Area">>

OwnerField(k) == IF k = "grow" THEN "Person" ELSE "Owner"

DescField(k) == IF k = "grow" THEN "Area" ELSE "Description"

(* The header list handed to the merge: the loaded one, or the kind's      *)
(* default when the log was loaded as empty.                               *)
FacadeHeaders(hdrs, k, mf) == IF hdrs = <<>> THEN DefaultHeaders(k, mf) ELSE hdrs

---------------------------------------------------------------------------
(* The inputs the model draws from.                                        *)

T_ab == <<"a", " ", "b">>
T_AB2 == <<"A", " ", " ", "b">>
T_wsAB == <<" ", "A", "\t", " ", "b", " ">>
T_b == <<"b">>
T_abj == <<"a", "b">>

Open == <<"o", "p", "e", "n">>
Closed == <<"c", "l", "o", "s", "e", "d">>

MkItem(k, summary, owner, title, date, due) ==
    [kind |-> k, summary |-> summary, owner |-> owner, title |-> title,
     date |-> date, tag |-> <<"M">>, due |-> due]

Item1(k) == MkItem(k, T_ab, <<"d">>, <<"w">>, "2024-03-01", <<>>)
Item2(k) == MkItem(k, T_wsAB, <<"D", " ">>, <<"s">>, "2024-03-08", <<"2024-04-01">>)
Item3(k) == MkItem(k, T_b, <<"d">>, <<"s">>, "2024-03-08", <<>>)
Item4(k) == MkItem(k, T_ab, <<"e">>, <<"w">>, "2024-03-01", <<>>)

Items(k) == {Item1(k), Item2(k), Item3(k), Item4(k)}

(* The batches: none, each item alone, an identity twice in one batch in   *)
(* two spellings, a new identity twice, one description under two owners.  *)
Batches(k) ==
    { <<>>, <<Item1(k)>>, <<Item2(k)>>, <<Item3(k)>>, <<Item4(k)>>,
      <<Item1(k), Item2(k)>>, <<Item3(k), Item3(k)>>, <<Item4(k), Item1(k)>> }

LogRow(mf, id, owner, desc, status, incidents) ==
    Put([ID |-> id, Date |-> <<"2024-02-01">>, Owner |-> owner,
         Description |-> desc, Status |-> status, Incidents |-> incidents],
        mf, <<"k">>)

Id(prefix, digits) == prefix \o <<"-">> \o digits

(* Tables as a risk or task log may hold them: no row, padded IDs, a       *)
(* hand-written ID and a row of a log without Incidents column, an empty   *)
(* Incidents cell, an ID and an identity that occur twice, the last 4-digit *)
(* ID.                                                                     *)
LogTables(k, mf) ==
    LET p == Prefix(k)
        row1 == LogRow(mf, Id(p, <<"0", "0", "0", "1">>), <<"d">>, T_ab, Open, <<"2">>)
        row2 == LogRow(mf, Id(p, <<"0", "0", "0", "3">>), <<"D">>, T_b, Closed, <<>>)
        row3 == Put([ID |-> Id(p, <<"x">>), Date |-> <<"2024-02-01">>, Owner |-> <<"e">>,
                     Description |-> T_abj, Status |-> Open], mf, <<"k">>)
        row4 == LogRow(mf, Id(p, <<"0", "0", "0", "1">>), <<"D">>, T_AB2, Open, <<"1">>)
        row5 == LogRow(mf, Id(p, <<"9", "9", "9", "9">>), <<"e">>, T_AB2, Open, <<"1">>)
    IN  { <<>>, <<row1>>, <<row1, row2>>, <<row3, row1>>, <<row1, row4>>, <<row5>> }

DevRow(id, person, area, meeting, date) ==
    [ID |-> id, Person |-> person, Area |-> area, Meeting |-> meeting, Date |-> date]

(* Tables of a development log in the legacy wide layout: an unpadded and  *)
(* a padded ID of one number, rows without ID, an ID of another prefix.    *)
LegacyDevTables ==
    LET g1 == DevRow(<<"G", "-", "1">>, <<"d">>, T_ab, <<"w">>, <<"2024-03-01">>)
        g2 == DevRow(<<"G", "-", "0", "0", "0", "1">>, <<"e">>, T_b, <<>>, <<"2024-02-01">>)
        g3 == DevRow(<<>>, <<"d">>, T_b, <<"w">>, <<>>)
        g4 == DevRow(<<"G", "L", "-", "0", "0", "0", "2">>, <<"e">>, T_abj, <<>>, <<>>)
        g5 == DevRow(<<>>, <<"e">>, T_AB2, <<>>, <<>>)
    IN  { <<g1, g2>>, <<g3, g2, g5>>, <<g4, g1>> }

(* Tables of a development log in the simplified layout: no row, a row,   *)
(* one description of two meetings under one person.                       *)
DevTables ==
    LET g2 == [ID |-> <<"G", "-", "0", "0", "0", "2">>, Person |-> <<"d">>,
               Area |-> T_ab \o <<" ", "(", "w", ",", " ", "2024-03-01", ")">>]
        g3 == [ID |-> <<"G", "-", "0", "0", "0", "3">>, Person |-> <<"d">>,
               Area |-> T_ab \o <<" ", "(", "s", ",", " ", "2024-03-08", ")">>]
    IN  { <<>>, <<g2>>, <<g2, g3>> }

NoArgs == [items |-> <<>>, hdrs |-> <<>>, loaded |-> <<>>, prefix |-> <<>>, pad |-> TRUE]

NoOut == [err |-> "none", done |-> 0, id |-> <<>>]

(* No run of process is under way and no step was taken. *)
NoStep ==
    [op |-> "none", name |-> <<>>, before |-> <<>>, existed |-> FALSE, item |-> <<>>,
     response |-> [t |-> "none", data |-> <<>>], got |-> <<>>, err |-> "none"]

NoRun ==
    /\ files = <<>>
    /\ files0 = <<>>
    /\ pc = "idle"
    /\ dry_run = FALSE
    /\ meetings = <<>>
    /\ development_items = <<>>
    /\ step = NoStep
    /\ runs = 0

---------------------------------------------------------------------------
(* The state: one log of a kind, as loaded, and the call in progress: its   *)
(* name, the rows it was given, its arguments and its outcome.             *)

Init ==
    /\ kind \in Kinds
    /\ meetingName \in MeetingFieldNames
    /\ \/ /\ headers = load_log_table_missing.headers
          /\ rows = load_log_table_missing.rows
       \/ /\ kind # "grow"
          /\ headers = DefaultHeaders(kind, meetingName)
          /\ rows \in LogTables(kind, meetingName)
       \/ /\ kind = "grow"
          /\ headers = LegacyDevHeaders
          /\ rows \in LegacyDevTables
       \/ /\ kind = "grow"
          /\ headers = DefaultHeaders(kind, meetingName)
          /\ rows \in DevTables
    /\ calls = 0
    /\ op = "idle"
    /\ pre = <<>>
    /\ args = NoArgs
    /\ out = NoOut
    /\ NoRun
    /\ lines = <<>>

MergeItemsCall ==
    \E items \in Batches(kind),
       hdrs \in {headers, FacadeHeaders(headers, kind, meetingName)} :
        /\ op = "idle"
        /\ calls < MaxCalls
        /\ LET r == merge_items(rows, items, Prefix(kind), hdrs, KeyFields(kind),
                                OwnerField(kind), DescField(kind), meetingName)
           IN  /\ rows' = r.rows
               /\ out' = [err |-> r.err, done |-> r.done, id |-> <<>>]
        /\ headers' = hdrs
        /\ calls' = calls + 1
        /\ op' = "merge_items"
        /\ pre' = rows
        /\ args' = [NoArgs EXCEPT !.items = items, !.hdrs = hdrs, !.loaded = headers,
                                  !.prefix = Prefix(kind)]
        /\ UNCHANGED <<kind, meetingName, runVars, lines>>

MergeDevelopmentItemsCall ==
    \E items \in Batches(kind) :
        /\ op = "idle"
        /\ calls < MaxCalls
        /\ kind = "grow"
        /\ LET r == merge_development_items(rows, items, Prefix(kind), DescField(kind))
           IN  /\ rows' = r.rows
               /\ out' = [err |-> r.err, done |-> r.done, id |-> <<>>]
        /\ calls' = calls + 1
        /\ op' = "merge_development_items"
        /\ pre' = rows
        /\ args' = [NoArgs EXCEPT !.items = items, !.hdrs = headers, !.prefix = Prefix(kind)]
        /\ UNCHANGED <<kind, meetingName, headers, runVars, lines>>

NormalizeDevelopmentTableCall ==
    /\ op = "idle"
    /\ calls < MaxCalls
    /\ kind = "grow"
    /\ LET r == normalize_development_table(headers, rows, DescField(kind),
                                            "Meeting", "Date", Prefix(kind))
       IN  /\ rows' = r.rows
           /\ headers' = r.headers
    /\ calls' = calls + 1
    /\ op' = "normalize_development_table"
    /\ pre' = rows
    /\ args' = [NoArgs EXCEPT !.hdrs = headers, !.prefix = Prefix(kind)]
    /\ out' = NoOut
    /\ UNCHANGED <<kind, meetingName, runVars, lines>>

NextIdCall ==
    \E prefix \in {Prefix(kind), <<"G", "L">>}, pad \in BOOLEAN :
        /\ op = "idle"
        /\ out' = [NoOut EXCEPT !.id = next_id(rows, prefix, pad)]
        /\ op' = "next_id"
        /\ pre' = rows
        /\ args' = [NoArgs EXCEPT !.hdrs = headers, !.prefix = prefix, !.pad = pad]
        /\ UNCHANGED <<kind, meetingName, rows, headers, calls, runVars, lines>>

(* The call has returned and the caller goes on with the rows it left.  A  *)
(* call that raised ends the run.                                          *)
Return ==
    /\ op # "idle"
    /\ out.err = "none"
    /\ op' = "idle"
    /\ pre' = <<>>
    /\ args' = NoArgs
    /\ out' = NoOut
    /\ UNCHANGED <<kind, meetingName, rows, headers, calls, runVars, lines>>

Next ==
    \/ MergeItemsCall
    \/ MergeDevelopmentItemsCall
    \/ NormalizeDevelopmentTableCall
    \/ NextIdCall
    \/ Return

Spec == Init /\ [][Next]_vars

---------------------------------------------------------------------------
(* Vocabulary of the properties, stated without the operators of the code. *)

Distinct(s) == \A i, j \in 1..Len(s) : i # j => s[i] # s[j]

IsDigits(s) == s # <<>> /\ \A i \in 1..Len(s) : s[i] \in Digits

(* id is <prefix>-<digits> *)
HasForm(id, prefix) ==
    /\ Len(id) > Len(prefix) + 1
    /\ SubSeq(id, 1, Len(prefix)) = prefix
    /\ id[Len(prefix) + 1] = "-"
    /\ IsDigits(SubSeq(id, Len(prefix) + 2, Len(id)))

NumberOf(id, prefix) == DigitsValue(SubSeq(id, Len(prefix) + 2, Len(id)))

SetMax(S) == CHOOSE m \in S : \A n \in S : n <= m

(* The largest number among the IDs of rs of the form <prefix>-<digits>, 0 if none. *)
LargestNumber(rs, prefix) ==
    SetMax({0} \cup {NumberOf(Get(rs[i], "ID"), prefix) :
                        i \in {j \in 1..Len(rs) : HasForm(Get(rs[j], "ID"), prefix)}})

IsMerge == op \in {"merge_items", "merge_development_items"}

(* C6: next_id(rows, prefix) returns <prefix>-<m+1>, m the largest number  *)
(* among the IDs of the form <prefix>-<digits> and 0 when there is none,   *)
(* written with at least 4 digits when padding is on and without leading   *)
(* zero when it is off; other IDs are ignored, and the result is the ID of *)
(* no row.                                                                 *)
C6_NextIdIsLargestPlusOne ==
    op = "next_id" =>
        LET p == args.prefix
            digits == SubSeq(out.id, Len(p) + 2, Len(out.id))
        IN  /\ HasForm(out.id, p)
            /\ NumberOf(out.id, p) = LargestNumber(rows, p) + 1
            /\ IF args.pad
               THEN Len(digits) >= PadWidth /\ (Len(digits) > PadWidth => digits[1] # "0")
               ELSE digits[1] # "0"
            /\ \A i \in 1..Len(rows) : Get(rows[i], "ID") # out.id

(* R-0001, R-0003 gives R-0004. *)
C6_Witness ==
    /\ op = "next_id"
    /\ args.pad
    /\ Len(rows) = 2
    /\ rows[1].ID = <<"R", "-", "0", "0", "0", "1">>
    /\ rows[2].ID = <<"R", "-", "0", "0", "0", "3">>
    /\ out.id = <<"R", "-", "0", "0", "0", "4">>

(* C1: a merge call on rows with pairwise distinct IDs leaves rows with    *)
(* pairwise distinct IDs, and every row it adds has an ID of the form      *)
(* <prefix>-<digits>; so it is after every call of a sequence of merges.   *)
C1_IdsStayDistinct ==
    (IsMerge /\ Distinct(IDsOf(pre))) =>
        /\ Distinct(IDsOf(rows))
        /\ \A i \in (Len(pre) + 1)..Len(rows) : HasForm(rows[i].ID, args.prefix)

(* The second merge of a sequence adds two rows to a log that had rows. *)
C1_Witness ==
    /\ IsMerge
    /\ calls = 2
    /\ pre # <<>>
    /\ Distinct(IDsOf(pre))
    /\ Len(rows) = Len(pre) + 2

---------------------------------------------------------------------------
(* Identity keys and candidates, as the properties see them.               *)

(* The items of the batch the loop has taken (all of them unless it raised). *)
Taken == SubSeq(args.items, 1, out.done)

(* The value a candidate carries in a column of the log. *)
ItemField(item, field) ==
    IF field = DescField(kind) THEN item.summary
    ELSE IF field = OwnerField(kind) THEN item.owner
    ELSE <<>>

IdentityOf(row) == [i \in 1..Len(KeyFields(kind)) |-> normalize_text(Get(row, KeyFields(kind)[i]))]

IdentityOfItem(item) ==
    [i \in 1..Len(KeyFields(kind)) |-> normalize_text(ItemField(item, KeyFields(kind)[i]))]

Identities(rs) == {IdentityOf(rs[i]) : i \in 1..Len(rs)}

IdentitiesDistinct(rs) ==
    \A i, j \in 1..Len(rs) : i # j => IdentityOf(rs[i]) # IdentityOf(rs[j])

(* C2: a merge_items call on rows with pairwise distinct identity keys     *)
(* leaves rows with pairwise distinct identity keys, and adds exactly one  *)
(* row for each identity among its candidates that no row had: a candidate *)
(* whose key is that of a row, or of a row added earlier in the batch, adds *)
(* none.                                                                   *)
C2_IdentitiesStayDistinct ==
    (op = "merge_items" /\ IdentitiesDistinct(pre)) =>
        /\ IdentitiesDistinct(rows)
        /\ Len(rows) - Len(pre) =
             Cardinality({IdentityOfItem(Taken[j]) : j \in 1..Len(Taken)} \ Identities(pre))

(* A batch that names one new identity twice adds one row to a log with rows. *)
C2_Witness ==
    /\ op = "merge_items"
    /\ pre # <<>>
    /\ IdentitiesDistinct(pre)
    /\ Len(args.items) = 2
    /\ out.done = 2
    /\ IdentityOfItem(args.items[1]) = IdentityOfItem(args.items[2])
    /\ IdentityOfItem(args.items[1]) \notin Identities(pre)
    /\ Len(rows) = Len(pre) + 1

(* The number in an Incidents cell; an empty or absent cell counts 0. *)
IncidentsValue(row) == DigitsValue(Get(row, "Incidents"))

RECURSIVE TotalIncidents(_, _)
(* The Incidents of the rows of rs that carry identity k. *)
TotalIncidents(rs, k) ==
    IF rs = <<>> THEN 0
    ELSE (IF IdentityOf(Head(rs)) = k THEN IncidentsValue(Head(rs)) ELSE 0)
         + TotalIncidents(Tail(rs), k)

Mentions(items, k) == Cardinality({j \in 1..Len(items) : IdentityOfItem(items[j]) = k})

(* C3: in a merge_items call no row's Incidents decreases, the Incidents   *)
(* of an identity grows by one for each candidate of that identity, and an *)
(* identity no row had starts at 1 with its first candidate.               *)
C3_IncidentsGrowByOne ==
    (op = "merge_items" /\ args.hdrs # <<>>) =>
        /\ \A i \in 1..Len(pre) : IncidentsValue(rows[i]) >= IncidentsValue(pre[i])
        /\ \A k \in Identities(rows) :
               TotalIncidents(rows, k) = TotalIncidents(pre, k) + Mentions(Taken, k)
        /\ \A i \in (Len(pre) + 1)..Len(rows) :
               IncidentsValue(rows[i]) = Mentions(Taken, IdentityOf(rows[i]))

(* Two candidates of one batch match the same row, which had Incidents 2 and has 4. *)
C3_Witness ==
    /\ op = "merge_items"
    /\ out.err = "none"
    /\ \E i \in 1..Len(pre) :
           /\ IncidentsValue(pre[i]) = 2
           /\ IncidentsValue(rows[i]) = 4

(* The same batch merged once more into the rows the call left. *)
MergedAgain ==
    merge_items(rows, args.items, args.prefix, args.hdrs, KeyFields(kind),
                OwnerField(kind), DescField(kind), meetingName).rows

RowsOfIdentity(rs, k) == {i \in 1..Len(rs) : IdentityOf(rs[i]) = k}

(* C4: merging a batch a second time, into the result of the first merge,  *)
(* adds no row; one candidate of an identity no row had, merged in two     *)
(* calls, leaves one row of that identity, with Incidents 2.               *)
C4_SecondMergeAddsNoRow ==
    (op = "merge_items" /\ args.hdrs # <<>> /\ out.err = "none") =>
        /\ Len(MergedAgain) = Len(rows)
        /\ (Len(args.items) = 1 /\ IdentityOfItem(args.items[1]) \notin Identities(pre)) =>
             LET k == IdentityOfItem(args.items[1])
             IN  /\ Len(rows) = Len(pre) + 1
                 /\ RowsOfIdentity(MergedAgain, k) = {Len(rows)}
                 /\ Get(MergedAgain[Len(rows)], "Incidents") = <<"2">>

(* One candidate of a new identity, in another spelling than its normal form, *)
(* was merged into a log with rows.                                        *)
C4_Witness ==
    /\ op = "merge_items"
    /\ out.err = "none"
    /\ pre # <<>>
    /\ Len(args.items) = 1
    /\ args.items[1].summary # normalize_text(args.items[1].summary)
    /\ IdentityOfItem(args.items[1]) \notin Identities(pre)
    /\ Len(rows) = Len(pre) + 1

RECURSIVE Words(_)
(* The maximal runs without whitespace of a text, in order. *)
Words(s) ==
    IF s = <<>> THEN <<>>
    ELSE IF Head(s) \in Whitespace THEN Words(Tail(s))
    ELSE LET stops == {i \in 1..Len(s) : s[i] \in Whitespace} \cup {Len(s) + 1}
             n == CHOOSE i \in stops : \A j \in stops : i <= j
         IN  <<SubSeq(s, 1, n - 1)>> \o Words(SubSeq(s, n, Len(s)))

FoldCase(w) == [i \in 1..Len(w) |-> Lower(w[i])]

(* Two texts that differ at most by letter case and by whitespace around   *)
(* and between their words.                                                *)
SameButCaseAndSpace(a, b) ==
    LET wa == Words(a)
        wb == Words(b)
    IN  /\ Len(wa) = Len(wb)
        /\ \A i \in 1..Len(wa) : FoldCase(wa[i]) = FoldCase(wb[i])

SameIdentity(row, item) ==
    \A n \in 1..Len(KeyFields(kind)) :
        SameButCaseAndSpace(Get(row, KeyFields(kind)[n]), ItemField(item, KeyFields(kind)[n]))

HasRowFor(item) == \E i \in 1..Len(pre) : SameIdentity(pre[i], item)

(* C5: a candidate whose identity fields differ from a row's only by case  *)
(* or whitespace is merged into such a row, whose Incidents grows, and     *)
(* adds no row.                                                            *)
C5_CaseAndSpaceMerge ==
    (op = "merge_items" /\ args.hdrs # <<>>) =>
        /\ \A j \in 1..Len(Taken) :
               HasRowFor(Taken[j]) =>
                   \E i \in 1..Len(pre) :
                       /\ SameIdentity(pre[i], Taken[j])
                       /\ IncidentsValue(rows[i]) > IncidentsValue(pre[i])
        /\ Len(rows) - Len(pre) <=
               Cardinality({j \in 1..Len(Taken) : ~HasRowFor(Taken[j])})

(* The candidate " A \t b " met a row with description "a b". *)
C5_Witness ==
    /\ op = "merge_items"
    /\ out.err = "none"
    /\ args.items = <<Item2(kind)>>
    /\ \E i \in 1..Len(pre) : Get(pre[i], DescField(kind)) = T_ab /\ SameIdentity(pre[i], Item2(kind))
    /\ Len(rows) = Len(pre)

MetBy(i) ==
    IF \E n \in (i + 1)..Len(pre) : IdentityOf(pre[n]) = IdentityOf(pre[i])
    THEN {}
    ELSE {j \in 1..Len(Taken) : IdentityOfItem(Taken[j]) = IdentityOf(pre[i])}

(* The meeting value of a candidate: its title, with the tag for a task. *)
MeetingValue(item) ==
    IF item.kind = "task" THEN item.title \o <<" ", "(">> \o item.tag \o <<")">>
    ELSE item.title

(* C8: a row that a candidate matched keeps its ID and carries the date    *)
(* and the meeting value of the last candidate that matched it, in the     *)
(* column named by meeting_field, whatever that name is.                   *)
C8_MatchedRowTakesDateAndMeeting ==
    (op = "merge_items" /\ args.hdrs # <<>>) =>
        \A i \in 1..Len(pre) :
            MetBy(i) # {} =>
                LET item == Taken[SetMax(MetBy(i))]
                IN  /\ out.err = "none"
                    /\ Get(rows[i], "ID") = Get(pre[i], "ID")
                    /\ Get(rows[i], "Date") = <<item.date>>
                    /\ Get(rows[i], meetingName) = MeetingValue(item)

(* C9: normalize_development_table applied to its own output returns the   *)
(* same headers and the same rows.                                         *)
C9_MigrationIdempotent ==
    op = "normalize_development_table" =>
        LET again == normalize_development_table(headers, rows, DescField(kind),
                                                 "Meeting", "Date", Prefix(kind))
        IN  /\ again.headers = headers
            /\ again.rows = rows

(* The table given was in the legacy layout: a meeting was folded into a   *)
(* description and an ID was filled in.                                    *)
C9_Witness ==
    /\ op = "normalize_development_table"
    /\ args.hdrs = LegacyDevHeaders
    /\ \E i \in 1..Len(pre) :
           Get(pre[i], "Meeting") # <<>> /\ Get(rows[i], "Area") # Get(pre[i], "Area")
    /\ \E i \in 1..Len(pre) : Get(pre[i], "ID") = <<>> /\ Get(rows[i], "ID") # <<>>

NonEmptyIds(rs) == SelectSeq(IDsOf(rs), LAMBDA id : id # <<>>)

(* C10: after normalize_development_table on rows whose non-empty IDs are  *)
(* pairwise distinct, every row has a non-empty ID and the IDs are         *)
(* pairwise distinct.                                                      *)
C10_MigratedIdsDistinct ==
    (op = "normalize_development_table" /\ Distinct(NonEmptyIds(pre))) =>
        /\ \A i \in 1..Len(rows) : Get(rows[i], "ID") # <<>>
        /\ Distinct(IDsOf(rows))

---------------------------------------------------------------------------
(* The csv module, excel dialect, as csv.writer and csv.reader use it on a *)
(* file opened with newline="".  A record is a sequence of cells, a cell a *)
(* text; a file is the text csv.writer has written.                        *)

CsvSpecial == {",", "\"", "\r", "\n"}

RECURSIVE CsvDoubleQuotes(_)
CsvDoubleQuotes(cell) ==
    IF cell = <<>> THEN <<>>
    ELSE (IF Head(cell) = "\"" THEN <<"\"", "\"">> ELSE <<Head(cell)>>)
         \o CsvDoubleQuotes(Tail(cell))

(* QUOTE_MINIMAL: a cell is quoted when it holds a delimiter, a quote or a *)
(* line break.                                                             *)
CsvField(cell) ==
    IF \E i \in 1..Len(cell) : cell[i] \in CsvSpecial
    THEN <<"\"">> \o CsvDoubleQuotes(cell) \o <<"\"">>
    ELSE cell

RECURSIVE CsvJoin(_)
CsvJoin(cells) ==
    IF cells = <<>> THEN <<>>
    ELSE IF Len(cells) = 1 THEN CsvField(cells[1])
    ELSE CsvField(cells[1]) \o <<",">> \o CsvJoin(Tail(cells))

(* writer.writerow(cells): a record of one empty cell is written quoted. *)
writerow(cells) ==
    (IF cells = << <<>> >> THEN <<"\"", "\"">> ELSE CsvJoin(cells)) \o <<"\r", "\n">>

RECURSIVE writerows(_)
writerows(records) ==
    IF records = <<>> THEN <<>>
    ELSE writerow(Head(records)) \o writerows(Tail(records))

(* The least position from i on where s holds a character of S, Len(s) + 1 *)
(* when there is none.                                                     *)
FirstAt(s, i, S) ==
    LET c == {e \in i..Len(s) : s[e] \in S}
    IN  IF c = {} THEN Len(s) + 1 ELSE CHOOSE e \in c : \A x \in c : e <= x

(* The position of the quote that closes the quoted cell opened at i: the  *)
(* end of the first run of quotes of odd length (a pair of quotes inside   *)
(* the cell is one quote of its text); Len(s) + 1 when the cell is open at *)
(* the end of the file.                                                    *)
ClosingQuote(s, i) ==
    LET RunStart(j) ==
            LET other == {p \in (i + 1)..j : s[p] # "\""}
            IN  IF other = {} THEN i + 1
                ELSE (CHOOSE p \in other : \A x \in other : x <= p) + 1
        c == {j \in (i + 1)..Len(s) :
                 /\ s[j] = "\""
                 /\ (j = Len(s) \/ s[j + 1] # "\"")
                 /\ (j - RunStart(j) + 1) % 2 = 1}
    IN  IF c = {} THEN Len(s) + 1 ELSE CHOOSE j \in c : \A x \in c : j <= x

RECURSIVE CsvUnquote(_)
(* The text of a quoted cell: each pair of quotes is one quote. *)
CsvUnquote(t) ==
    IF t = <<>> THEN <<>>
    ELSE IF Len(t) >= 2 /\ t[1] = "\"" /\ t[2] = "\""
    THEN <<"\"">> \o CsvUnquote(SubSeq(t, 3, Len(t)))
    ELSE <<Head(t)>> \o CsvUnquote(Tail(t))

(* The cell that starts at position i, and the position of the delimiter   *)
(* or line break that ends it.  A quote opens a quoted cell only as the    *)
(* first character; what follows the closing quote up to the delimiter is  *)
(* taken as it is.                                                         *)
CsvCell(s, i) ==
    IF i <= Len(s) /\ s[i] = "\""
    THEN LET j == ClosingQuote(s, i)
             e == FirstAt(s, j + 1, {",", "\r", "\n"})
         IN  [cell |-> CsvUnquote(SubSeq(s, i + 1, j - 1)) \o SubSeq(s, j + 1, e - 1),
              end |-> e]
    ELSE LET e == FirstAt(s, i, {",", "\r", "\n"})
         IN  [cell |-> SubSeq(s, i, e - 1), end |-> e]

(* The position after the line break at position e: "\r\n" is one break. *)
AfterBreak(s, e) ==
    IF e < Len(s) /\ s[e] = "\r" /\ s[e + 1] = "\n" THEN e + 2 ELSE e + 1

RECURSIVE CsvScan(_, _, _, _)
(* csv.reader on s, recs being the records read.  With fields empty a     *)
(* record starts at position i; otherwise fields holds the cells read of   *)
(* the record under way and i is the position of the delimiter after them. *)
(* An empty line is an empty record.                                       *)
CsvScan(s, i, fields, recs) ==
    IF i > Len(s) /\ fields = <<>> THEN recs
    ELSE IF fields = <<>> /\ s[i] \in {"\r", "\n"}
    THEN CsvScan(s, AfterBreak(s, i), <<>>, recs \o << <<>> >>)
    ELSE LET c == CsvCell(s, IF fields = <<>> THEN i ELSE i + 1)
             record == (IF fields = <<>> THEN <<>> ELSE fields[1]) \o <<c.cell>>
         IN  IF c.end > Len(s) THEN recs \o <<record>>
             ELSE IF s[c.end] = "," THEN CsvScan(s, c.end, <<record>>, recs)
             ELSE CsvScan(s, AfterBreak(s, c.end), <<>>, recs \o <<record>>)

(* list(csv.reader(handle)) *)
reader(text) == CsvScan(text, 1, <<>>, <<>>)

---------------------------------------------------------------------------
(* append_development_csv_by_person                                        *)

expected_headers == << <<"P", "e", "r", "s", "o", "n">>, <<"D", "a", "t", "e">>, <<"M", "e", "e", "t", "i", "n", "g">>, <<"K", "i", "n", "d">>, <<"B", "e", "h", "a", "v", "i", "o", "r">>, <<"S", "u", "m", "m", "a", "r", "y">> >>

legacy_headers == << <<"P", "e", "r", "s", "o", "n">>, <<"D", "a", "t", "e">>, <<"B", "e", "h", "a", "v", "i", "o", "r">>, <<"S", "u", "m", "m", "a", "r", "y">>, <<"M", "e", "e", "t", "i", "n", "g">> >>

IsAlnum(c) == IsLetter(c) \/ c \in Digits

RECURSIVE SubNonAlnum(_)
(* re.sub(r"[^A-Za-z0-9]+", "_", s) *)
SubNonAlnum(s) ==
    IF s = <<>> THEN <<>>
    ELSE IF IsAlnum(Head(s)) THEN <<Head(s)>> \o SubNonAlnum(Tail(s))
    ELSE IF Len(s) > 1 /\ ~IsAlnum(s[2]) THEN SubNonAlnum(Tail(s))
    ELSE <<"_">> \o SubNonAlnum(Tail(s))

RECURSIVE StripChar(_, _)
(* s.strip(ch) *)
StripChar(s, ch) ==
    IF s # <<>> /\ Head(s) = ch THEN StripChar(Tail(s), ch)
    ELSE IF s # <<>> /\ s[Len(s)] = ch THEN StripChar(SubSeq(s, 1, Len(s) - 1), ch)
    ELSE s

Unassigned == <<"U", "n", "a", "s", "s", "i", "g", "n", "e", "d">>

(* person = item.owner or "Unassigned" *)
PersonOf(item) == IF item.owner = <<>> THEN Unassigned ELSE item.owner

(* The stem of csv_path. *)
safe_name(person) ==
    LET n == StripChar(SubNonAlnum(Strip(person)), "_")
    IN  IF n = <<>> THEN Unassigned ELSE n

(* str.title(): a letter after a letter is lowered, any other letter raised. *)
Title(s) ==
    [i \in 1..Len(s) |->
        IF i > 1 /\ IsLetter(s[i - 1]) THEN Lower(s[i]) ELSE Upper(s[i])]

normalize_kind(value) ==
    LET lowered == LowerStr(Strip(value))
    IN  IF lowered = <<"g", "r", "o", "w">> THEN <<"G", "r", "o", "w">>
        ELSE IF lowered = <<"g", "l", "o", "w">> THEN <<"G", "l", "o", "w">>
        ELSE Title(Strip(value))

(* normalize_behavior with a lookup of cleaned instead of cleaned.lower(). *)
normalize_behavior_case_sensitive(value) ==
    LET cleaned == Strip(value)
    IN  IF value = <<>> \/ cleaned = <<>> THEN <<>>
        ELSE IF cleaned = <<"s", "t", "u", "d", "e", "n", "t">> THEN <<"S", "t", "u", "d", "e", "n", "t">>
        ELSE IF cleaned = <<"t", "e", "a", "c", "h", "e", "r">> THEN <<"T", "e", "a", "c", "h", "e", "r">>
        ELSE IF cleaned = <<"c", "o", "m", "m", "u", "n", "i", "t", "y">> THEN <<"C", "o", "m", "m", "u", "n", "i", "t", "y">>
        ELSE IF cleaned = <<"c", "o", "m", "p", "a", "n", "y">> THEN <<"C", "o", "m", "p", "a", "n", "y">>
        ELSE cleaned

(* An absent behavior (None) is the empty text. *)
normalize_behavior(value) ==
    LET cleaned == Strip(value)
        low == LowerStr(cleaned)
    IN  IF value = <<>> \/ cleaned = <<>> THEN <<>>
        ELSE IF low = <<"s", "t", "u", "d", "e", "n", "t">> THEN <<"S", "t", "u", "d", "e", "n", "t">>
        ELSE IF low = <<"t", "e", "a", "c", "h", "e", "r">> THEN <<"T", "e", "a", "c", "h", "e", "r">>
        ELSE IF low = <<"c", "o", "m", "m", "u", "n", "i", "t", "y">> THEN <<"C", "o", "m", "m", "u", "n", "i", "t", "y">>
        ELSE IF low = <<"c", "o", "m", "p", "a", "n", "y">> THEN <<"C", "o", "m", "p", "a", "n", "y">>
        ELSE cleaned

(* raw.split(":", 1) of a raw that holds a colon *)
SplitAtColon(raw) ==
    LET i == CHOOSE j \in 1..Len(raw) : raw[j] = ":" /\ \A k \in 1..(j - 1) : raw[k] # ":"
    IN  <<SubSeq(raw, 1, i - 1), SubSeq(raw, i + 1, Len(raw))>>

split_legacy_behavior(value) ==
    LET raw == Strip(value)
    IN  IF raw = <<>> THEN << <<>>, <<>> >>
        ELSE IF \E j \in 1..Len(raw) : raw[j] = ":"
        THEN <<normalize_kind(SplitAtColon(raw)[1]), normalize_behavior(SplitAtColon(raw)[2])>>
        ELSE <<normalize_kind(raw), <<>> >>

(* A file of the log directory: whether it exists, its text, and how often *)
(* it was migrated.                                                        *)
NoFile == [exists |-> FALSE, text |-> <<>>, migrations |-> 0]

File(text) == [exists |-> TRUE, text |-> text, migrations |-> 0]

FileOf(fs, name) == IF name \in DOMAIN fs THEN fs[name] ELSE NoFile

WriteFile(fs, name, text) ==
    [n \in (DOMAIN fs) \cup {name} |->
        IF n = name THEN [FileOf(fs, name) EXCEPT !.exists = TRUE, !.text = text] ELSE fs[n]]

(* temp_path.replace(csv_path) *)
ReplaceFile(fs, name, text) ==
    [WriteFile(fs, name, text) EXCEPT ![name].migrations = @ + 1]

(* existing_headers: the first record of a file that exists and is not     *)
(* empty; no record and no file (None) both compare unequal to the known   *)
(* header lists and are the empty list here.                               *)
existing_headers(f) ==
    IF f.exists /\ f.text # <<>> /\ reader(f.text) # <<>> THEN reader(f.text)[1] ELSE <<>>

(* list(row) + [""] * (len(legacy_headers) - len(row)) *)
Padded(row) ==
    row \o [i \in 1..Max(0, Len(legacy_headers) - Len(row)) |-> <<>>]

(* The row of the current layout for one legacy row. *)
LegacyRow(row) ==
    LET p == Padded(row)
        kb == split_legacy_behavior(p[3])
    IN  <<p[1], p[2], p[5], kb[1], kb[2], p[4]>>

RECURSIVE legacy_rows(_)
(* The loop over the data records of a legacy file: empty records are skipped. *)
legacy_rows(records) ==
    IF records = <<>> THEN <<>>
    ELSE IF Head(records) = <<>> THEN legacy_rows(Tail(records))
    ELSE <<LegacyRow(Head(records))>> \o legacy_rows(Tail(records))

(* The migration with the legacy header written back. *)
MigratedText_legacy_header(f) ==
    writerows(<<legacy_headers>> \o legacy_rows(Tail(reader(f.text))))

(* The text the migration writes to the temporary file that replaces csv_path. *)
MigratedText(f) ==
    writerows(<<expected_headers>> \o legacy_rows(Tail(reader(f.text))))

KindText(k) == IF k = "grow" THEN <<"g", "r", "o", "w">> ELSE <<"g", "l", "o", "w">>

(* The row written for an item. *)
ItemRow(item) ==
    <<PersonOf(item), ItemDate(item), item.title, normalize_kind(KindText(item.kind)),
      normalize_behavior(item.behavior), item.summary>>

(* The append with the header written to every file not under it. *)
AppendedText_header_unless_current(f, item) ==
    LET write_header == existing_headers(f) # expected_headers
    IN  f.text \o (IF write_header THEN writerow(expected_headers) ELSE <<>>)
               \o writerow(ItemRow(item))

(* The file after the append: the header is written first to a file that   *)
(* does not exist or is empty.                                             *)
AppendedText(f, item) ==
    LET write_header == (~f.exists \/ f.text = <<>>) /\ existing_headers(f) # expected_headers
    IN  f.text \o (IF write_header THEN writerow(expected_headers) ELSE <<>>)
               \o writerow(ItemRow(item))

---------------------------------------------------------------------------
(* llm_extract_items_openai: the entries of the classifier's response.  A  *)
(* JSON value is its type and, for a string or a number, its text.         *)

J_absent == [t |-> "absent", v |-> <<>>]
J_null == [t |-> "null", v |-> <<>>]
J_str(v) == [t |-> "str", v |-> v]
J_num(v) == [t |-> "num", v |-> v]

(* bool(value) *)
Truthy(j) == (j.t = "str" /\ j.v # <<>>) \/ (j.t = "num" /\ j.v # <<"0">>)

(* value.strip() if isinstance(value, str) else None *)
StripOrNone(j) == IF j.t = "str" /\ Truthy(j) THEN Strip(j.v) ELSE <<>>

(* One turn of the loop over data.  st holds the items accepted and the    *)
(* exception raised, if any.                                               *)
ExtractEntry(st, obj, meeting) ==
    IF st.err # "none" THEN st
    ELSE IF ~obj.dict THEN st
    ELSE IF obj.type.t \notin {"str", "absent"} THEN [st EXCEPT !.err = "TypeError"]
    ELSE
    LET kindText == normalize_text(obj.type.v)
    IN  IF kindText \notin {<<"g", "r", "o", "w">>, <<"g", "l", "o", "w">>} THEN st
        ELSE IF ~Truthy(obj.summary) THEN st
        ELSE IF obj.summary.t # "str" THEN [st EXCEPT !.err = "AttributeError"]
        ELSE IF Truthy(obj.owner) /\ obj.owner.t # "str" THEN [st EXCEPT !.err = "AttributeError"]
        ELSE [st EXCEPT !.items = @ \o
                << [kind |-> IF kindText = <<"g", "r", "o", "w">> THEN "grow" ELSE "glow",
                    summary |-> Strip(obj.summary.v),
                    owner |-> IF Truthy(obj.owner) THEN Strip(obj.owner.v) ELSE Unassigned,
                    title |-> meeting.title, date |-> meeting.date, tag |-> meeting.tag,
                    due |-> StripOrNone(obj.due),
                    behavior |-> StripOrNone(obj.behavior)] >>]

RECURSIVE ExtractLoop(_, _, _)
ExtractLoop(st, data, meeting) ==
    IF data = <<>> THEN st
    ELSE ExtractLoop(ExtractEntry(st, Head(data), meeting), Tail(data), meeting)

(* The items of a response, or the exception the loop raises on it. *)
llm_extract_items_openai(response, meeting) ==
    IF response.t = "raise" THEN [items |-> <<>>, err |-> "RuntimeError"]
    ELSE IF response.t # "list" THEN [items |-> <<>>, err |-> "none"]
    ELSE ExtractLoop([items |-> <<>>, err |-> "none"], response.data, meeting)

(* items of one meeting in process: none without text, none when the       *)
(* extraction raised.                                                      *)
MeetingItems(meeting) ==
    LET r == llm_extract_items_openai(meeting.response, meeting)
    IN  IF ~meeting.text THEN <<>>
        ELSE IF r.err # "none" THEN <<>>
        ELSE r.items

---------------------------------------------------------------------------
(* The inputs of a run of process.                                         *)

Entry(type, summary, owner, behavior) ==
    [dict |-> TRUE, type |-> type, summary |-> summary, owner |-> owner,
     due |-> J_absent, behavior |-> behavior]

E_sam == Entry(J_str(<<"g", "r", "o", "w">>), J_str(<<"P", "a", "i", "r", "s", " ", "w", "e", "l", "l">>), J_str(<<"S", "a", "m">>), J_str(<<"s", "t", "u", "d", "e", "n", "t">>))
E_al == Entry(J_str(<<" ", "G", "l", "o", "w">>), J_str(<<" ", "A", "s", "k", "s", ",", " ", "\"", "w", "h", "y", "\"", " ">>), J_str(<<"A", "l">>), J_absent)

Response(data) == [t |-> "list", data |-> data]

(* The responses of the classifier: lists of well-formed entries, a list   *)
(* with malformed entries (not an object, an unknown kind, no kind, no     *)
(* summary, an empty summary), lists with a summary and a kind that are    *)
(* not strings, an empty list, an object, no JSON at all.                  *)
Responses ==
    LET E_nobody == Entry(J_str(<<"g", "l", "o", "w">>), J_str(<<"L", "i", "s", "t", "e", "n", "s">>), J_null, J_str(<<"O", "t", "h", "e", "r">>))
        E_text == [dict |-> FALSE, type |-> J_absent, summary |-> J_absent,
                   owner |-> J_absent, due |-> J_absent, behavior |-> J_absent]
        E_risk == Entry(J_str(<<"r", "i", "s", "k">>), J_str(<<"L", "a", "t", "e">>), J_str(<<"S", "a", "m">>), J_absent)
        E_untyped == Entry(J_absent, J_str(<<"L", "a", "t", "e">>), J_str(<<"S", "a", "m">>), J_absent)
        E_nosummary == Entry(J_str(<<"g", "r", "o", "w">>), J_absent, J_str(<<"S", "a", "m">>), J_absent)
        E_emptysummary == Entry(J_str(<<"g", "r", "o", "w">>), J_str(<<>>), J_str(<<"S", "a", "m">>), J_absent)
        E_numsummary == Entry(J_str(<<"g", "r", "o", "w">>), J_num(<<"5">>), J_str(<<"S", "a", "m">>), J_absent)
        E_nulltype == Entry(J_null, J_str(<<"L", "a", "t", "e">>), J_str(<<"S", "a", "m">>), J_absent)
    IN  { Response(<<E_sam>>),
          Response(<<E_sam, E_al>>),
          Response(<<E_text, E_sam, E_risk, E_untyped, E_nosummary, E_emptysummary, E_nobody>>),
          Response(<<E_sam, E_numsummary>>),
          Response(<<E_nulltype, E_al>>),
          Response(<<>>),
          [t |-> "object", data |-> <<>>],
          [t |-> "raise", data |-> <<>>] }

MkMeeting(title, date, text, response) ==
    [title |-> title, date |-> date, tag |-> <<"M">>, text |-> text, response |-> response]

Standup(response) == MkMeeting(<<"S", "t", "a", "n", "d", "u", "p">>, "2024-03-01", TRUE, response)

(* The meetings of a run: none, one, one after a meeting without text. *)
MeetingLists ==
    {<<>>} \cup {<<Standup(r)>> : r \in Responses}
           \cup {<<MkMeeting(<<"R", "e", "t", "r", "o">>, "2024-03-08", FALSE, Response(<<E_al>>)),
                   Standup(Response(<<E_sam, E_al>>))>>}

Sam == <<"S", "a", "m">>

LegacyRecords ==
    << <<Sam, <<"2024-01-02">>, <<"s", "t", "u", "d", "e", "n", "t", ":", " ", "n", "e", "e", "d", "s", " ", "m", "o", "r", "e", " ", "p", "r", "a", "c", "t", "i", "c", "e">>, <<"P", "a", "i", "r", "s", " ", "w", "e", "l", "l">>, <<"S", "t", "a", "n", "d", "u", "p">>>>,
       <<Sam, <<"2024-01-09">>, <<"G", "R", "O", "W", " ", ":", " ", "T", "E", "A", "C", "H", "E", "R", " ">>, <<"S", "a", "i", "d", " ", "\"", "n", "o", "\"", ",", " ", "t", "w", "i", "c", "e">>>>,
       <<>>,
       <<Sam, <<"2024-01-16">>, <<"g", "l", "o", "w">>, <<"H", "e", "l", "p", "s">>, <<"R", "e", "t", "r", "o">>, <<"e", "x", "t", "r", "a">>>>,
       <<Sam, <<"2024-01-23">>, <<"l", "a", "t", "e", " ", "s", "t", "a", "r", "t", ":", " ", "a", ":", " ", "b">>>> >>

CurrentRecords ==
    << <<Sam, <<"2024-02-01">>, <<"R", "e", "t", "r", "o">>, <<"G", "r", "o", "w">>, <<"S", "t", "u", "d", "e", "n", "t">>, <<"P", "l", "a", "n", "s", ",", " ", "t", "h", "e", "n", " ", "a", "c", "t", "s">>>> >>

UnknownHeaders == << <<"P", "e", "r", "s", "o", "n">>, <<"D", "a", "t", "e">>, <<"N", "o", "t", "e">> >>

UnknownRecords == << <<Sam, <<"2024-02-01">>, <<"x">>>> >>

(* Sam's file as a run may find it: absent, empty, in the legacy layout    *)
(* (the row of the scenario alone, rows that are short, long, empty and    *)
(* without colon), in the current layout, under headers of no layout.      *)
SamFiles ==
    { NoFile,
      File(<<>>),
      File(writerows(<<legacy_headers, LegacyRecords[1]>>)),
      File(writerows(<<legacy_headers>> \o LegacyRecords)),
      File(writerows(<<expected_headers>> \o CurrentRecords)),
      File(writerows(<<UnknownHeaders>> \o UnknownRecords)) }

---------------------------------------------------------------------------
(* process and main: a run reads its meetings one by one, then appends the *)
(* items one by one; an interrupt ends it wherever it is.                  *)

InitRun ==
    /\ kind = "grow"
    /\ meetingName = "Meeting"
    /\ rows = <<>>
    /\ headers = <<>>
    /\ calls = 0
    /\ op = "idle"
    /\ pre = <<>>
    /\ args = NoArgs
    /\ out = NoOut
    /\ lines = <<>>
    /\ \E f \in SamFiles : files = [n \in {Sam} |-> f]
    /\ files0 = files
    /\ pc = "extract"
    /\ dry_run \in BOOLEAN
    /\ meetings \in MeetingLists
    /\ development_items = <<>>
    /\ step = NoStep
    /\ runs = 1

(* One turn of the loop over meetings. *)
ExtractMeeting ==
    /\ pc = "extract"
    /\ meetings # <<>>
    /\ LET m == Head(meetings)
           r == llm_extract_items_openai(m.response, m)
       IN  /\ development_items' = development_items \o MeetingItems(m)
           /\ step' = [NoStep EXCEPT !.op = "extract", !.response = IF m.text THEN m.response ELSE NoStep.response,
                                     !.got = MeetingItems(m),
                                     !.err = IF m.text THEN r.err ELSE "none"]
    /\ meetings' = Tail(meetings)
    /\ UNCHANGED <<files, files0, pc, dry_run, runs, logVars, lines>>

(* After the loop: return when there is no item or the run is a dry run. *)
EndOfMeetings ==
    /\ pc = "extract"
    /\ meetings = <<>>
    /\ pc' = IF development_items = <<>> \/ dry_run THEN "returned" ELSE "append"
    /\ step' = NoStep
    /\ UNCHANGED <<files, files0, dry_run, meetings, development_items, runs, logVars, lines>>

(* The file of the next item is in the legacy layout: it is rewritten. *)
MigrateLegacy ==
    /\ pc = "append"
    /\ development_items # <<>>
    /\ LET item == Head(development_items)
           name == safe_name(PersonOf(item))
           f == FileOf(files, name)
       IN  /\ existing_headers(f) = legacy_headers
           /\ files' = ReplaceFile(files, name, MigratedText(f))
           /\ step' = [NoStep EXCEPT !.op = "migrate", !.name = name, !.before = f.text,
                                     !.existed = f.exists, !.item = item]
    /\ UNCHANGED <<files0, pc, dry_run, meetings, development_items, runs, logVars, lines>>

(* The row of the next item is appended to its file. *)
AppendItem ==
    /\ pc = "append"
    /\ development_items # <<>>
    /\ LET item == Head(development_items)
           name == safe_name(PersonOf(item))
           f == FileOf(files, name)
       IN  /\ existing_headers(f) # legacy_headers
           /\ files' = WriteFile(files, name, AppendedText(f, item))
           /\ step' = [NoStep EXCEPT !.op = "append", !.name = name, !.before = f.text,
                                     !.existed = f.exists, !.item = item]
    /\ development_items' = Tail(development_items)
    /\ UNCHANGED <<files0, pc, dry_run, meetings, runs, logVars, lines>>

Finish ==
    /\ pc = "append"
    /\ development_items = <<>>
    /\ pc' = "done"
    /\ step' = NoStep
    /\ UNCHANGED <<files, files0, dry_run, meetings, development_items, runs, logVars, lines>>

(* KeyboardInterrupt: main exits. *)
Interrupt ==
    /\ pc \in {"extract", "append"}
    /\ pc' = "interrupted"
    /\ UNCHANGED <<files, files0, dry_run, meetings, development_items, step, runs, logVars, lines>>

(* The next invocation on the same log directory. *)
NextRun ==
    /\ pc \in {"returned", "done", "interrupted"}
    /\ runs < MaxRuns
    /\ runs' = runs + 1
    /\ pc' = "extract"
    /\ dry_run' \in BOOLEAN
    /\ meetings' \in MeetingLists
    /\ development_items' = <<>>
    /\ files0' = files
    /\ step' = NoStep
    /\ UNCHANGED <<files, logVars, lines>>

NextOfRun ==
    \/ ExtractMeeting
    \/ EndOfMeetings
    \/ MigrateLegacy
    \/ AppendItem
    \/ Finish
    \/ Interrupt
    \/ NextRun

SpecRun == InitRun /\ [][NextOfRun]_vars

---------------------------------------------------------------------------
(* Person files, as the properties see them.                               *)

(* The cell of a record under the column called name, empty when the       *)
(* header has no such column or the record is too short.                   *)
Value(record, header, name) ==
    LET c == {i \in 1..Len(header) : header[i] = name /\ i <= Len(record)}
    IN  IF c = {} THEN <<>> ELSE record[CHOOSE i \in c : \A x \in c : i <= x]

(* The records of a file that hold a cell, after its header. *)
DataRecords(text) ==
    LET NotEmpty(r) == r # <<>>
    IN  SelectSeq(Tail(reader(text)), NotEmpty)

HeaderOf(text) == IF reader(text) = <<>> THEN <<>> ELSE reader(text)[1]

(* The file the last step wrote. *)
Written == FileOf(files, step.name).text

(* C11: the migration of a person file in the legacy layout leaves a file  *)
(* whose header is ID, Person, Date, Meeting, Kind, Behavior, Summary and  *)
(* which holds one row for each legacy row, in order, with the legacy      *)
(* row's Person, Date, Summary and Meeting under the columns of these      *)
(* names.                                                                  *)
C11_LegacyMigratesToLayoutWithId ==
    step.op = "migrate" =>
        /\ HeaderOf(Written) =
             << <<"I", "D">>, <<"P", "e", "r", "s", "o", "n">>, <<"D", "a", "t", "e">>, <<"M", "e", "e", "t", "i", "n", "g">>, <<"K", "i", "n", "d">>, <<"B", "e", "h", "a", "v", "i", "o", "r">>, <<"S", "u", "m", "m", "a", "r", "y">> >>
        /\ Len(DataRecords(Written)) = Len(DataRecords(step.before))
        /\ \A i \in 1..Len(DataRecords(step.before)) :
               \A name \in { <<"P", "e", "r", "s", "o", "n">>, <<"D", "a", "t", "e">>, <<"S", "u", "m", "m", "a", "r", "y">>, <<"M", "e", "e", "t", "i", "n", "g">> } :
                   Value(DataRecords(Written)[i], HeaderOf(Written), name)
                     = Value(DataRecords(step.before)[i], HeaderOf(step.before), name)

(* A text without the whitespace around it. *)
Trimmed(t) ==
    LET c == {i \in 1..Len(t) : t[i] \notin Whitespace}
    IN  IF c = {} THEN <<>>
        ELSE SubSeq(t, CHOOSE i \in c : \A x \in c : i <= x,
                       CHOOSE i \in c : \A x \in c : x <= i)

(* k spells the text part, trimmed, with a capital at the start of every   *)
(* run of letters and small letters after it.                              *)
IsCapitalizedFormOf(k, part) ==
    /\ FoldCase(k) = FoldCase(Trimmed(part))
    /\ \A i \in 1..Len(k) :
           IsLetter(k[i]) =>
               IF i = 1 \/ ~IsLetter(k[i - 1]) THEN k[i] # Lower(k[i]) ELSE k[i] # Upper(k[i])

BehaviorVocabulary == { <<"S", "t", "u", "d", "e", "n", "t">>, <<"T", "e", "a", "c", "h", "e", "r">>, <<"C", "o", "m", "m", "u", "n", "i", "t", "y">>, <<"C", "o", "m", "p", "a", "n", "y">> }

(* b is the Behavior for the text part: the word of the vocabulary that    *)
(* part names in any case, else part, trimmed.                             *)
IsBehaviorOf(b, part) ==
    IF \E w \in BehaviorVocabulary : FoldCase(w) = FoldCase(Trimmed(part))
    THEN b \in BehaviorVocabulary /\ FoldCase(b) = FoldCase(Trimmed(part))
    ELSE b = Trimmed(part)

Colons(v) == {i \in 1..Len(v) : v[i] = ":"}

FirstColon(v) == CHOOSE i \in Colons(v) : \A x \in Colons(v) : i <= x

(* The combined legacy cell of the i-th legacy row, and the cells it became. *)
LegacyCell(i) == Value(DataRecords(step.before)[i], HeaderOf(step.before), <<"B", "e", "h", "a", "v", "i", "o", "r">>)

KindCell(i) == Value(DataRecords(Written)[i], HeaderOf(Written), <<"K", "i", "n", "d">>)

BehaviorCell(i) == Value(DataRecords(Written)[i], HeaderOf(Written), <<"B", "e", "h", "a", "v", "i", "o", "r">>)

(* C12: in the migration of a legacy person file, the Kind of a row is the *)
(* capitalized form of the combined cell's text before its first colon and *)
(* the Behavior is the text after that colon, trimmed, or the word of the  *)
(* vocabulary Student, Teacher, Community, Company it names in any case; a *)
(* combined cell without colon gives its capitalized form as Kind and an   *)
(* empty Behavior.                                                         *)
C12_LegacyCellSplitAtFirstColon ==
    step.op = "migrate" =>
        \A i \in 1..Len(DataRecords(step.before)) :
            LET v == LegacyCell(i)
            IN  IF Colons(v) # {}
                THEN /\ IsCapitalizedFormOf(KindCell(i), SubSeq(v, 1, FirstColon(v) - 1))
                     /\ IsBehaviorOf(BehaviorCell(i), SubSeq(v, FirstColon(v) + 1, Len(v)))
                ELSE /\ IsCapitalizedFormOf(KindCell(i), v)
                     /\ BehaviorCell(i) = <<>>

(* "GROW : TEACHER " became Grow and Teacher, "late start: a: b" became    *)
(* Late Start and "a: b", "glow" became Glow and nothing.                  *)
C12_Witness ==
    /\ step.op = "migrate"
    /\ Len(DataRecords(step.before)) = 4
    /\ LegacyCell(2) = <<"G", "R", "O", "W", " ", ":", " ", "T", "E", "A", "C", "H", "E", "R", " ">>
    /\ KindCell(2) = <<"G", "r", "o", "w">>
    /\ BehaviorCell(2) = <<"T", "e", "a", "c", "h", "e", "r">>
    /\ KindCell(4) = <<"L", "a", "t", "e", " ", "S", "t", "a", "r", "t">>
    /\ BehaviorCell(4) = <<"a", ":", " ", "b">>
    /\ KindCell(3) = <<"G", "l", "o", "w">>
    /\ BehaviorCell(3) = <<>>

IsPrefix(a, b) == Len(a) <= Len(b) /\ SubSeq(b, 1, Len(a)) = a

(* C13: over the runs on a person file, the file is migrated at most once; *)
(* a migration happens on a file under the legacy header and leaves the    *)
(* current header and one row for each legacy data row, in order; no row   *)
(* is appended to a file under the legacy header (the first run on it      *)
(* migrates it first); and a step on a file under the current header is no *)
(* migration and leaves the records the file held, in place, before the    *)
(* row it appends.                                                         *)
C13_LegacyMigratedOnce ==
    /\ \A n \in DOMAIN files : files[n].migrations <= 1
    /\ step.op = "migrate" =>
           /\ HeaderOf(step.before) = legacy_headers
           /\ HeaderOf(Written) = expected_headers
           /\ Len(DataRecords(Written)) = Len(DataRecords(step.before))
           /\ \A i \in 1..Len(DataRecords(step.before)) :
                  \A name \in { <<"P", "e", "r", "s", "o", "n">>, <<"D", "a", "t", "e">>, <<"S", "u", "m", "m", "a", "r", "y">>, <<"M", "e", "e", "t", "i", "n", "g">> } :
                      Value(DataRecords(Written)[i], HeaderOf(Written), name)
                        = Value(DataRecords(step.before)[i], HeaderOf(step.before), name)
    /\ step.op = "append" => HeaderOf(step.before) # legacy_headers
    /\ (step.op \in {"migrate", "append"} /\ HeaderOf(step.before) = expected_headers) =>
           /\ step.op = "append"
           /\ IsPrefix(step.before, Written)
           /\ IsPrefix(reader(step.before), reader(Written))
           /\ Len(reader(Written)) = Len(reader(step.before)) + 1

(* The second run appends to the file the first run migrated: 4 legacy     *)
(* rows and the row of the first run.                                      *)
C13_Witness ==
    /\ runs = 2
    /\ step.op = "append"
    /\ step.name = Sam
    /\ files[Sam].migrations = 1
    /\ HeaderOf(step.before) = expected_headers
    /\ Len(DataRecords(step.before)) = 5
    /\ Len(DataRecords(Written)) = 6

---------------------------------------------------------------------------
(* The table codec: write_log, load_log_table_from_lines, load_html_table. *)
(* A column name is one token of a line, as a date is.                     *)

RECURSIVE JoinWith(_, _)
(* sep.join(parts) *)
JoinWith(parts, sep) ==
    IF parts = <<>> THEN <<>>
    ELSE IF Len(parts) = 1 THEN parts[1]
    ELSE parts[1] \o sep \o JoinWith(Tail(parts), sep)

RECURSIVE SplitOn(_, _)
(* s.split(ch) *)
SplitOn(s, ch) ==
    LET e == FirstAt(s, 1, {ch})
    IN  IF e > Len(s) THEN <<s>>
        ELSE <<SubSeq(s, 1, e - 1)>> \o SplitOn(SubSeq(s, e + 1, Len(s)), ch)

RECURSIVE splitlines(_)
(* text.splitlines(): a line ends at "\n", "\r" or "\r\n". *)
splitlines(text) ==
    IF text = <<>> THEN <<>>
    ELSE LET e == FirstAt(text, 1, {"\n", "\r"})
         IN  IF e > Len(text) THEN <<text>>
             ELSE <<SubSeq(text, 1, e - 1)>>
                  \o splitlines(SubSeq(text, AfterBreak(text, e), Len(text)))

RECURSIVE NameOf(_)
(* The column name a header cell spells. *)
NameOf(cell) == IF cell = <<>> THEN "" ELSE Head(cell) \o NameOf(Tail(cell))

(* The cells of a row under the headers: row.get(h, "") for h in headers. *)
CellsOf(row, hdrs) == [i \in 1..Len(hdrs) |-> Get(row, hdrs[i])]

GridLine(cells) == <<"|", " ">> \o JoinWith(cells, <<" ", "|", " ">>) \o <<" ", "|">>

SeparatorLine(n) ==
    <<"|">> \o JoinWith([i \in 1..n |-> <<"-", "-", "-">>], <<"|">>) \o <<"|">>

(* The text write_log writes to path. *)
write_log(hdrs, rs) ==
    JoinWith(<<GridLine([i \in 1..Len(hdrs) |-> <<hdrs[i]>>]), SeparatorLine(Len(hdrs))>>
             \o [i \in 1..Len(rs) |-> GridLine(CellsOf(rs[i], hdrs))],
             <<"\n">>) \o <<"\n">>

(* The least position from i on where pat occurs in s, 0 when it does not; *)
(* letters of any case match when fold is set.                             *)
Find(s, pat, i, fold) ==
    LET Norm(t) == IF fold THEN LowerStr(t) ELSE t
        c == {p \in i..(Len(s) - Len(pat) + 1) : Norm(SubSeq(s, p, p + Len(pat) - 1)) = pat}
    IN  IF c = {} THEN 0 ELSE CHOOSE p \in c : \A x \in c : p <= x

(* dict(zip(headers, cells)): a name that occurs twice keeps its last cell, *)
(* and the shorter of the two lists bounds the pairs.                      *)
ZipDict(hdrs, cells) ==
    LET n == IF Len(hdrs) <= Len(cells) THEN Len(hdrs) ELSE Len(cells)
    IN  [name \in {hdrs[i] : i \in 1..n} |->
            cells[CHOOSE i \in 1..n : hdrs[i] = name /\ \A j \in (i + 1)..n : hdrs[j] # name]]

RECURSIVE HtmlRowTexts(_, _)
(* row_pat.findall(text) from position i: <tr>(.*?)</tr>, any case. *)
HtmlRowTexts(s, i) ==
    LET a == Find(s, <<"<", "t", "r", ">">>, i, TRUE)
        b == IF a = 0 THEN 0 ELSE Find(s, <<"<", "/", "t", "r", ">">>, a + 4, TRUE)
    IN  IF a = 0 \/ b = 0 THEN <<>>
        ELSE <<SubSeq(s, a + 4, b - 1)>> \o HtmlRowTexts(s, b + 5)

(* The least of two positions found, 0 when neither was. *)
Earlier(p, q) == IF p = 0 THEN q ELSE IF q = 0 THEN p ELSE IF p <= q THEN p ELSE q

RECURSIVE HtmlCellTexts(_, _)
(* cell_pat.findall(row_html) from position i: <t[hd]>(.*?)</t[hd]>, any case. *)
HtmlCellTexts(s, i) ==
    LET a == Earlier(Find(s, <<"<", "t", "h", ">">>, i, TRUE),
                     Find(s, <<"<", "t", "d", ">">>, i, TRUE))
        b == IF a = 0 THEN 0
             ELSE Earlier(Find(s, <<"<", "/", "t", "h", ">">>, a + 4, TRUE),
                          Find(s, <<"<", "/", "t", "d", ">">>, a + 4, TRUE))
    IN  IF a = 0 \/ b = 0 THEN <<>>
        ELSE <<SubSeq(s, a + 4, b - 1)>> \o HtmlCellTexts(s, b + 5)

RECURSIVE StripTags(_)
(* re.sub(r"<.*?>", "", cell): a tag runs from "<" to the next ">" of its line. *)
StripTags(s) ==
    LET Closes(p) == {q \in (p + 1)..Len(s) :
                         s[q] = ">" /\ \A k \in (p + 1)..(q - 1) : s[k] # "\n"}
        opens == {p \in 1..Len(s) : s[p] = "<" /\ Closes(p) # {}}
    IN  IF opens = {} THEN s
        ELSE LET p == CHOOSE x \in opens : \A y \in opens : x <= y
                 q == CHOOSE x \in Closes(p) : \A y \in Closes(p) : x <= y
             IN  SubSeq(s, 1, p - 1) \o StripTags(SubSeq(s, q + 1, Len(s)))

RECURSIVE unescape(_)
(* html.unescape on the entities of the model's texts: &amp; &lt; &gt; *)
unescape(s) ==
    IF s = <<>> THEN <<>>
    ELSE IF StartsWith(s, <<"&", "a", "m", "p", ";">>)
         THEN <<"&">> \o unescape(SubSeq(s, 6, Len(s)))
    ELSE IF StartsWith(s, <<"&", "l", "t", ";">>)
         THEN <<"<">> \o unescape(SubSeq(s, 5, Len(s)))
    ELSE IF StartsWith(s, <<"&", "g", "t", ";">>)
         THEN <<">">> \o unescape(SubSeq(s, 5, Len(s)))
    ELSE <<Head(s)>> \o unescape(Tail(s))

(* load_html_table.clean *)
clean(cell) == Strip(unescape(StripTags(cell)))

RECURSIVE HtmlLoop(_, _, _)
(* The loop over the rows found: idx counts from 0, t is the table so far. *)
HtmlLoop(t, rowTexts, idx) ==
    IF rowTexts = <<>> THEN t
    ELSE LET found == HtmlCellTexts(Head(rowTexts), 1)
             cells == [i \in 1..Len(found) |-> clean(found[i])]
         IN  IF cells = <<>> THEN HtmlLoop(t, Tail(rowTexts), idx + 1)
             ELSE IF idx = 0
             THEN HtmlLoop([t EXCEPT !.headers = [i \in 1..Len(cells) |-> NameOf(cells[i])]],
                           Tail(rowTexts), idx + 1)
             ELSE HtmlLoop([t EXCEPT !.rows = @ \o <<ZipDict(t.headers, cells)>>],
                           Tail(rowTexts), idx + 1)

load_html_table(text) ==
    HtmlLoop([headers |-> <<>>, rows |-> <<>>], HtmlRowTexts(text, 1), 0)

(* The cells of a line of the pipe grid. *)
GridCells(line) ==
    LET parts == SplitOn(StripChar(Strip(line), "|"), "|")
    IN  [i \in 1..Len(parts) |-> Strip(parts[i])]

RECURSIVE GridLoop(_, _)
(* The loop over the lines, t being the table so far. *)
GridLoop(t, lns) ==
    IF lns = <<>> THEN t
    ELSE LET line == Head(lns)
             cells == GridCells(line)
         IN  IF ~StartsWith(line, <<"|">>) THEN GridLoop(t, Tail(lns))
             ELSE IF t.headers = <<>>
             THEN GridLoop([t EXCEPT !.headers = [i \in 1..Len(cells) |-> NameOf(cells[i])]],
                           Tail(lns))
             ELSE IF {cells[i] : i \in 1..Len(cells)} = {<<"-", "-", "-">>}
             THEN GridLoop(t, Tail(lns))
             ELSE IF Len(cells) # Len(t.headers) THEN GridLoop(t, Tail(lns))
             ELSE GridLoop([t EXCEPT !.rows = @ \o <<ZipDict(t.headers, cells)>>], Tail(lns))

load_log_table_from_lines(lns) ==
    LET text == JoinWith(lns, <<"\n">>)
    IN  IF Find(text, <<"<", "t", "a", "b", "l", "e">>, 1, FALSE) # 0
        THEN load_html_table(text)
        ELSE GridLoop([headers |-> <<>>, rows |-> <<>>], lns)

(* render_html_table with the column widths 10, 20, 70. *)
render_html_table(hdrs, rs) ==
    LET Tagged(tag, cells) ==
            <<"<", "t", "r", ">">>
            \o JoinWith([i \in 1..Len(cells) |->
                           <<"<", "t", tag, ">">> \o cells[i] \o <<"<", "/", "t", tag, ">">>], <<>>)
            \o <<"<", "/", "t", "r", ">">>
    IN  JoinWith(<< <<"<", "t", "a", "b", "l", "e", ">">>,
                    <<"<", "c", "o", "l", "g", "r", "o", "u", "p", ">">>,
                    <<"<", "c", "o", "l", " ", "w", "10", ">">>,
                    <<"<", "c", "o", "l", " ", "w", "20", ">">>,
                    <<"<", "c", "o", "l", " ", "w", "70", ">">>,
                    <<"<", "/", "c", "o", "l", "g", "r", "o", "u", "p", ">">>,
                    <<"<", "t", "h", "e", "a", "d", ">">>,
                    Tagged("h", [i \in 1..Len(hdrs) |-> <<hdrs[i]>>]),
                    <<"<", "/", "t", "h", "e", "a", "d", ">">>,
                    <<"<", "t", "b", "o", "d", "y", ">">> >>
                 \o [i \in 1..Len(rs) |-> Tagged("d", CellsOf(rs[i], hdrs))]
                 \o << <<"<", "/", "t", "b", "o", "d", "y", ">", "<", "/", "t", "a", "b", "l", "e", ">">> >>,
                 <<"\n">>)

---------------------------------------------------------------------------
(* A log in memory and its file: write_log renders the table to the file,  *)
(* load_log_table reads the file's lines back.                             *)

(* Rows a log may hold beyond those of LogTables: a description with a     *)
(* pipe, a description that names the table tag, a task without due date.  *)
CodecTables(k) ==
    LET p == Prefix(k)
        id1 == Id(p, <<"0", "0", "0", "1">>)
        id2 == Id(p, <<"0", "0", "0", "2">>)
        plain == LogRow("Meeting", id1, <<"d">>, T_ab, Open, <<"2">>)
        piped == LogRow("Meeting", id2, <<"e">>, <<"a", "|", "b">>, Open, <<"1">>)
        tagged == LogRow("Meeting", id2, <<"e">>, <<"n", "o", " ", "<", "t", "a", "b", "l", "e", ">", " ", "y", "e", "t">>, Open, <<"1">>)
        due == Put(LogRow("Meeting", id2, <<"e">>, T_b, Closed, <<"1">>), "Due", <<"2024-04-01">>)
    IN  IF k = "grow" THEN DevTables
        ELSE LogTables(k, "Meeting")
             \cup { <<plain, piped>>, <<tagged, plain>>, <<plain, due>> }

(* The lines a log file may hold when it is loaded: none, a grid as        *)
(* written, a grid edited by hand (text between the rows, an indented row, *)
(* rows with a cell too few and too many, a second separator), a grid      *)
(* without a line for the header, and tagged blocks: as rendered, with an  *)
(* empty row before the header row, with markup, an entity and a short row. *)
FileLines ==
    LET hdrs == <<"ID", "Person", "Area">>
        r1 == [ID |-> <<"G", "-", "0", "0", "0", "1">>, Person |-> <<"d">>, Area |-> T_ab]
        r2 == [ID |-> <<"G", "-", "0", "0", "0", "2">>, Person |-> <<"e">>, Area |-> T_b]
        head == <<"|", " ", "ID", " ", "|", " ", "Person", " ", "|", " ", "Area", " ", "|">>
        headRow == <<"<", "t", "r", ">", "<", "t", "h", ">", "ID", "<", "/", "t", "h", ">",
                     "<", "t", "h", ">", "Person", "<", "/", "t", "h", ">",
                     "<", "/", "t", "r", ">">>
    IN  { <<>>,
          splitlines(write_log(hdrs, <<r1, r2>>)),
          << <<"#", " ", "G", "r", "o", "w", "s">>, <<>>, head, <<"|", "-", "-", "-", "|", "-", "-", "-", "|", "-", "-", "-", "|">>, <<"|", " ", "G", "-", "0", "0", "0", "1", " ", "|", " ", "d", " ", "|", " ", "a", " ", "b", " ", "|">>, <<"n", "o", "t", "e">>,
             <<" ", "|", " ", "G", "-", "0", "0", "0", "2", " ", "|", " ", "e", " ", "|", " ", "b", " ", "|">>, <<"|", " ", "G", "-", "0", "0", "0", "3", " ", "|", " ", "e", " ", "|">>, <<"|", " ", "G", "-", "0", "0", "0", "4", " ", "|", " ", "e", " ", "|", " ", "b", " ", "|", " ", "c", " ", "|">>,
             <<"|", " ", "-", "-", "-", " ", "|", " ", "-", "-", "-", " ", "|", " ", "-", "-", "-", " ", "|">>, <<"|", "G", "-", "0", "0", "0", "5", "|", "e", "|", "|">> >>,
          << <<"n", "o", "t", "e">>, <<"|", " ", "G", "-", "0", "0", "0", "1", " ", "|", " ", "d", " ", "|", " ", "a", " ", "b", " ", "|">>, <<"|", " ", "G", "-", "0", "0", "0", "2", " ", "|", " ", "e", " ", "|", " ", "b", " ", "|">> >>,
          splitlines(render_html_table(hdrs, <<r1, r2>>)),
          << <<"<", "t", "a", "b", "l", "e", ">">>, <<"<", "t", "r", ">", "<", "/", "t", "r", ">">>, headRow, <<"<", "t", "r", ">", "<", "t", "d", ">", "G", "-", "0", "0", "0", "1", "<", "/", "t", "d", ">", "<", "t", "d", ">", "d", "<", "/", "t", "d", ">", "<", "/", "t", "r", ">">>,
             <<"<", "/", "t", "a", "b", "l", "e", ">">> >>,
          << <<"<", "t", "a", "b", "l", "e", ">">>, headRow, <<"<", "t", "r", ">", "<", "t", "d", ">", "<", "b", ">", "G", "-", "0", "0", "0", "1", "<", "/", "b", ">", "<", "/", "t", "d", ">", "<", "t", "d", ">", " ", "d", " ", "&", "a", "m", "p", ";", " ", "e", " ", "<", "/", "t", "d", ">", "<", "/", "t", "r", ">">>,
             <<"t", "e", "x", "t">>, <<"<", "t", "r", ">", "<", "/", "t", "r", ">">>, <<"<", "T", "R", ">", "<", "t", "d", ">", "G", "-", "0", "0", "0", "2", "<", "/", "t", "d", ">", "<", "/", "T", "R", ">">>, <<"<", "/", "t", "a", "b", "l", "e", ">">> >> }

InitCodec ==
    /\ kind \in Kinds
    /\ meetingName = "Meeting"
    /\ headers = DefaultHeaders(kind, meetingName)
    /\ rows \in CodecTables(kind)
    /\ lines \in FileLines
    /\ calls = 0
    /\ op = "idle"
    /\ pre = <<>>
    /\ args = NoArgs
    /\ out = NoOut
    /\ NoRun

(* write_log(path, headers, rows) *)
WriteLogCall ==
    /\ op = "idle"
    /\ lines' = splitlines(write_log(headers, rows))
    /\ op' = "write_log"
    /\ pre' = rows
    /\ args' = [NoArgs EXCEPT !.hdrs = headers]
    /\ UNCHANGED <<kind, meetingName, rows, headers, calls, out, runVars>>

(* headers, rows = load_log_table(path) for a path that exists *)
LoadLogTableCall ==
    /\ op = "idle"
    /\ LET t == load_log_table_from_lines(lines)
       IN  /\ headers' = t.headers
           /\ rows' = t.rows
    /\ op' = "load_log_table"
    /\ pre' = rows
    /\ args' = [NoArgs EXCEPT !.hdrs = headers]
    /\ UNCHANGED <<kind, meetingName, calls, out, lines, runVars>>

ReturnOfCodec ==
    /\ op # "idle"
    /\ op' = "idle"
    /\ pre' = <<>>
    /\ args' = NoArgs
    /\ UNCHANGED <<kind, meetingName, rows, headers, calls, out, lines, runVars>>

NextOfCodec ==
    \/ WriteLogCall
    \/ LoadLogTableCall
    \/ ReturnOfCodec

SpecCodec == InitCodec /\ [][NextOfCodec]_vars

(* The file holds what write_log renders from the table the load replaced, *)
(* a table under the header list of a kind.                                *)
LoadedWhatWasWritten ==
    /\ op = "load_log_table"
    /\ \E k \in Kinds : args.hdrs = DefaultHeaders(k, meetingName)
    /\ lines = splitlines(write_log(args.hdrs, pre))

(* C14: loading the lines write_log rendered from a table of a fixed kind  *)
(* gives the header list of the table, in order, and its rows, in order,   *)
(* each with the cell values of the table's row under every header.        *)
C14_GridRoundTrip ==
    LoadedWhatWasWritten =>
        /\ headers = args.hdrs
        /\ Len(rows) = Len(pre)
        /\ \A i \in 1..Len(pre) : CellsOf(rows[i], headers) = CellsOf(pre[i], args.hdrs)

(* No person file differs from its state at the start of the run while the *)
(* loop over the meetings is still collecting items.                       *)
NoWriteWhileExtracting == pc = "extract" => files = files0

(* Every row of the run is in its file: no item is left to append.         *)
AllWritesLanded == development_items = <<>>

(* C15: in a run of process no person file is written before every item of *)
(* the run is collected, and a run ended by KeyboardInterrupt leaves every *)
(* file as it was at the start of the run, or with all of the run's rows.  *)
C15_InterruptLeavesLogsAsBefore ==
    /\ NoWriteWhileExtracting
    /\ pc = "interrupted" => (files = files0 \/ AllWritesLanded)

(* An entry of a response that is an object with the kind label grow or    *)
(* glow, in any case, and a summary that is a text and not empty.          *)
WellFormed(e) ==
    /\ e.dict
    /\ e.type.t = "str"
    /\ normalize_text(e.type.v) \in {<<"g", "r", "o", "w">>, <<"g", "l", "o", "w">>}
    /\ e.summary.t = "str"
    /\ e.summary.v # <<>>

(* C16: when the classifier answered a meeting with a list, the items of   *)
(* the meeting are the well-formed entries of the list, one item each and  *)
(* in order, with the entry's summary, whatever malformed entries the list *)
(* holds beside them, and the extraction raises nothing.                   *)
C16_MalformedEntriesDroppedAlone ==
    (step.op = "extract" /\ step.response.t = "list") =>
        LET good == SelectSeq(step.response.data, WellFormed)
        IN  /\ step.err = "none"
            /\ Len(step.got) = Len(good)
            /\ \A i \in 1..Len(good) : step.got[i].summary = Trimmed(good[i].summary.v)

(* The last step found a file that holds a header which is neither the     *)
(* legacy nor the current header list.                                     *)
OnUnknownHeaders ==
    /\ step.op \in {"migrate", "append"}
    /\ step.existed
    /\ step.before # <<>>
    /\ HeaderOf(step.before) \notin {legacy_headers, expected_headers}

(* row holds the values of the item under the columns of the current layout. *)
IsRowOf(row, item) ==
    /\ Len(row) = Len(expected_headers)
    /\ Value(row, expected_headers, <<"P", "e", "r", "s", "o", "n">>) = PersonOf(item)
    /\ Value(row, expected_headers, <<"D", "a", "t", "e">>) = <<item.date>>
    /\ Value(row, expected_headers, <<"M", "e", "e", "t", "i", "n", "g">>) = item.title
    /\ IsCapitalizedFormOf(Value(row, expected_headers, <<"K", "i", "n", "d">>), KindText(item.kind))
    /\ IsBehaviorOf(Value(row, expected_headers, <<"B", "e", "h", "a", "v", "i", "o", "r">>), item.behavior)
    /\ Value(row, expected_headers, <<"S", "u", "m", "m", "a", "r", "y">>) = item.summary

(* C17: a step on a person file whose header is neither the legacy nor the *)
(* current header list is no migration: the file was never migrated, the   *)
(* text it held is the start of the text it holds, and the records it      *)
(* holds are the records it held, header included, followed by one record, *)
(* the item's row in the current layout.                                   *)
C17_UnknownHeadersAppendOnly ==
    OnUnknownHeaders =>
        /\ step.op = "append"
        /\ files[step.name].migrations = 0
        /\ IsPrefix(step.before, Written)
        /\ Len(reader(Written)) = Len(reader(step.before)) + 1
        /\ IsPrefix(reader(step.before), reader(Written))
        /\ IsRowOf(reader(Written)[Len(reader(Written))], step.item)

(* The second row appended to the file under Person, Date, Note. *)
C17_Witness ==
    /\ OnUnknownHeaders
    /\ HeaderOf(step.before) = UnknownHeaders
    /\ Len(reader(step.before)) = 3
    /\ Len(reader(Written)) = 4
    /\ HeaderOf(Written) = UnknownHeaders

(* The file holds a tagged block, else a pipe grid. *)
IsTagged(lns) == Find(JoinWith(lns, <<"\n">>), <<"<", "t", "a", "b", "l", "e">>, 1, FALSE) # 0

(* The cells of the valid lines of a file, in order: in a pipe grid the    *)
(* lines that start with the delimiter, in a tagged block the row elements *)
(* that hold a cell.                                                       *)
ValidLines(lns) ==
    LET HasCell(cells) == cells # <<>>
        grid == SelectSeq(lns, LAMBDA l : StartsWith(l, <<"|">>))
        found == HtmlRowTexts(JoinWith(lns, <<"\n">>), 1)
        CleanCells(r) == [i \in 1..Len(HtmlCellTexts(r, 1)) |-> clean(HtmlCellTexts(r, 1)[i])]
    IN  IF IsTagged(lns)
        THEN SelectSeq([i \in 1..Len(found) |-> CleanCells(found[i])], HasCell)
        ELSE [i \in 1..Len(grid) |-> GridCells(grid[i])]

(* The cells of the valid rows after the header line hd: in a pipe grid    *)
(* the lines with as many cells as the header that are no separator.       *)
ValidRows(lns, hd) ==
    LET IsRow(cells) ==
            IsTagged(lns) \/ (/\ Len(cells) = Len(hd)
                              /\ {cells[i] : i \in 1..Len(cells)} # {<<"-", "-", "-">>})
    IN  SelectSeq(Tail(ValidLines(lns)), IsRow)

(* C18: the table load_log_table returns for a file has the cells of the   *)
(* file's first valid line as header and one row for every later valid     *)
(* row, in the order of the file, with the row's cells under the header's  *)
(* names; a file without valid line gives no header and no row.            *)
C18_HeaderIsFirstValidLine ==
    op = "load_log_table" =>
        IF ValidLines(lines) = <<>> THEN headers = <<>> /\ rows = <<>>
        ELSE LET hd == ValidLines(lines)[1]
                 rs == ValidRows(lines, hd)
             IN  /\ headers = [i \in 1..Len(hd) |-> NameOf(hd[i])]
                 /\ Len(rows) = Len(rs)
                 /\ \A i \in 1..Len(rs) : rows[i] = ZipDict(headers, rs[i])

---------------------------------------------------------------------------
(* A risk or task log whose Incidents cells were edited by hand.           *)

(* Rows with an Incidents cell that is a word, a decimal fraction, empty.  *)
EditedTables(k) ==
    LET p == Prefix(k)
        e1 == LogRow("Meeting", Id(p, <<"0", "0", "0", "1">>), <<"d">>, T_ab, Open, <<"n", "/", "a">>)
        e2 == LogRow("Meeting", Id(p, <<"0", "0", "0", "2">>), <<"e">>, T_b, Open, <<"1", ".", "5">>)
        e3 == LogRow("Meeting", Id(p, <<"0", "0", "0", "3">>), <<"d">>, T_b, Closed, <<>>)
    IN  { <<e1>>, <<e1, e2>>, <<e3, e1>>, <<e3>> }

InitEdited ==
    /\ kind \in {"risk", "task"}
    /\ meetingName = "Meeting"
    /\ headers = DefaultHeaders(kind, meetingName)
    /\ rows \in EditedTables(kind)
    /\ calls = 0
    /\ op = "idle"
    /\ pre = <<>>
    /\ args = NoArgs
    /\ out = NoOut
    /\ NoRun
    /\ lines = <<>>

NextOfEdited ==
    \/ MergeItemsCall
    \/ Return

SpecEdited == InitEdited /\ [][NextOfEdited]_vars

(* The Incidents cell of the row is no run of digits: a word, empty, absent. *)
UnparsedIncidents(row) == ~IsDigits(Get(row, "Incidents"))

(* C19: a merge_items call whose batch holds one candidate of the identity *)
(* of a row with an Incidents cell that is no integer raises nothing and   *)
(* leaves that row with Incidents 1.                                       *)
C19_UnparsedIncidentsCountAsZero ==
    (op = "merge_items" /\ args.hdrs # <<>> /\ IdentitiesDistinct(pre)) =>
        \A i \in 1..Len(pre) :
            (UnparsedIncidents(pre[i]) /\ Mentions(args.items, IdentityOf(pre[i])) = 1) =>
                /\ out.err = "none"
                /\ Get(rows[i], "Incidents") = <<"1">>

---------------------------------------------------------------------------
(* The identity of a row of the development table and of a candidate: the  *)
(* description, with the meeting it names, and the person, both normalized. *)

DevIdentityOf(row) == <<normalize_text(Get(row, "Area")), normalize_text(Get(row, "Person"))>>

DevIdentityOfItem(item) == <<normalize_text(DevSummary(item)), normalize_text(item.owner)>>

(* The candidates of the batch with the identity k, by their position. *)
DevMentions(k) == {j \in 1..Len(args.items) : DevIdentityOfItem(args.items[j]) = k}

(* The row of rs a candidate of identity k matches: the last one of that identity. *)
IsMatchedRow(rs, i, k) ==
    /\ DevIdentityOf(rs[i]) = k
    /\ \A j \in (i + 1)..Len(rs) : DevIdentityOf(rs[j]) # k

(* C20: a merge_development_items call adds one row for each identity of   *)
(* description and person among its candidates that no row had, so that    *)
(* candidates of one description and two persons are in two rows; it       *)
(* leaves the ID of every row; a row matched by a candidate holds the      *)
(* Person and the description of the last candidate that matched it, as    *)
(* the candidate spells them; every other row is as it was.                *)
C20_DevelopmentKeyIsDescriptionAndPerson ==
    op = "merge_development_items" =>
        /\ Len(rows) - Len(pre) =
              Cardinality({DevIdentityOfItem(args.items[j]) : j \in 1..Len(args.items)}
                          \ {DevIdentityOf(pre[i]) : i \in 1..Len(pre)})
        /\ \A j \in 1..Len(args.items) :
               \E i \in 1..Len(rows) : DevIdentityOf(rows[i]) = DevIdentityOfItem(args.items[j])
        /\ \A i \in 1..Len(pre) :
               LET k == DevIdentityOf(pre[i])
               IN  /\ Get(rows[i], "ID") = Get(pre[i], "ID")
                   /\ IF IsMatchedRow(pre, i, k) /\ DevMentions(k) # {}
                      THEN LET item == args.items[SetMax(DevMentions(k))]
                           IN  /\ Get(rows[i], "Person") = item.owner
                               /\ Get(rows[i], "Area") = DevSummary(item)
                      ELSE rows[i] = pre[i]

(* An item of person "D " and description " A\t b " is merged into a table *)
(* that holds the row of d and "a b" of the same meeting: no row is added  *)
(* and the row holds the item's spellings under its ID.                    *)
C20_Witness ==
    /\ op = "merge_development_items"
    /\ args.items = <<Item2(kind)>>
    /\ Len(pre) = 2
    /\ Len(rows) = 2
    /\ pre[2].Person = <<"d">>
    /\ rows[2].Person = <<"D", " ">>
    /\ rows[2].Area = DevSummary(Item2(kind))
    /\ rows[2].Area # pre[2].Area
    /\ rows[2].ID = pre[2].ID
    /\ rows[1] = pre[1]

---------------------------------------------------------------------------
(* The frame of merge_items.                                               *)

(* The columns a merge may write in a row it matched. *)
MergedColumns == {"Incidents", "Date", meetingName}

(* Row i of the rows given to the call is the one a candidate of the batch *)
(* matched: the last row of its identity, named by a candidate the loop    *)
(* took.                                                                   *)
IsMatched(i) ==
    /\ Mentions(Taken, IdentityOf(pre[i])) > 0
    /\ \A j \in (i + 1)..Len(pre) : IdentityOf(pre[j]) # IdentityOf(pre[i])

(* The position in the batch of the first candidate of identity k. *)
FirstMention(k) ==
    LET c == {j \in 1..Len(Taken) : IdentityOfItem(Taken[j]) = k}
    IN  CHOOSE j \in c : \A x \in c : j <= x

(* C21: a merge_items call leaves every row it was given at its position;  *)
(* in such a row only Incidents, Date and the meeting column differ, so    *)
(* that ID, Status, owner and description are as they were, and a row no   *)
(* candidate matched is as it was; the rows it adds follow the rows it was *)
(* given, each for a candidate of an identity no row had, in the order of  *)
(* the batch.                                                              *)
C21_MergeKeepsRows ==
    op = "merge_items" =>
        /\ Len(rows) >= Len(pre)
        /\ \A i \in 1..Len(pre) :
               /\ DOMAIN rows[i] \ MergedColumns = DOMAIN pre[i] \ MergedColumns
               /\ \A f \in DOMAIN pre[i] \ MergedColumns : rows[i][f] = pre[i][f]
               /\ ~IsMatched(i) => rows[i] = pre[i]
        /\ \A i \in (Len(pre) + 1)..Len(rows) :
               /\ IdentityOf(rows[i]) \notin Identities(pre)
               /\ Mentions(Taken, IdentityOf(rows[i])) > 0
               /\ \A j \in (i + 1)..Len(rows) :
                      FirstMention(IdentityOf(rows[i])) < FirstMention(IdentityOf(rows[j]))

(* A batch of two tasks is merged into two rows: the second candidate      *)
(* matches the first row, whose Incidents goes from 2 to 3 under the same  *)
(* ID, owner, description and Status, the second row is as it was, and the *)
(* first candidate is the third row.                                       *)
C21_Witness ==
    /\ op = "merge_items"
    /\ kind = "task"
    /\ out.err = "none"
    /\ Len(args.items) = 2
    /\ Len(pre) = 2
    /\ Len(rows) = 3
    /\ IsMatched(1)
    /\ pre[1]["Incidents"] = <<"2">>
    /\ rows[1]["Incidents"] = <<"3">>
    /\ rows[1]["Date"] # pre[1]["Date"]
    /\ rows[1]["ID"] = pre[1]["ID"]
    /\ rows[1]["Status"] = pre[1]["Status"]
    /\ rows[1]["Owner"] = pre[1]["Owner"]
    /\ rows[1]["Description"] = pre[1]["Description"]
    /\ rows[2] = pre[2]
    /\ IdentityOf(rows[3]) = IdentityOfItem(args.items[1])

====
